---------------------------- MODULE Spec2Model ----------------------------
(***************************************************************************)
(* A model of simpledb_py: the in-memory table engine of src/core/table.py *)
(* (Column, Table), its helpers in src/utils/helpers.py, the type table of *)
(* src/config.py, the Database of src/core/db_engine.py and the Tokenizer   *)
(* of src/parser/tokenizer.py.                                             *)
(*                                                                         *)
(* Conventions of the encoding                                             *)
(*  - A Python str that the code inspects character by character (a table  *)
(*    or column name) is a sequence of one-character strings.              *)
(*  - A Python value is a record [type, val]: type is the name of the      *)
(*    value's runtime class ("NoneType", "int", "float", "bool", "str");   *)
(*    val is an integer: the number itself for int, 0/1 for bool, the      *)
(*    number of halves for float (3 is 1.5), and for str the position of   *)
(*    the text in the sorted list Texts.                                   *)
(*  - Python sequences are 0-based; At(s, i) reads s[i] the Python way.    *)
(*  - A call's outcome is kept in `last`: raised is the name of the        *)
(*    exception that left the call ("" when it returned), ret the value    *)
(*    returned.                                                            *)
(***************************************************************************)
EXTENDS Integers, Sequences, FiniteSets, TLC

VARIABLES
    columns,      \* Table.columns: the list of Column objects
    data,         \* Table.data: the list of rows, each <<row_id, v1, .., vn>>
    indexes,      \* Table.indexes: index name -> index object
    next_row_id,  \* Table.next_row_id
    call,         \* the pending call of a one-call specification (its inputs)
    last,         \* the last call made: [op, args, raised, ret]
    issued,       \* history: the ids insert_row returned, in order
    deleted,      \* history: the ids delete_row removed
    tables,       \* Database.tables: table name -> Table object
    ncalls        \* history: the number of calls made on the table

vars == <<columns, data, indexes, next_row_id, call, last, issued, deleted, tables, ncalls>>

---------------------------------------------------------------------------
(* Bounds of the model *)

\* at most MaxCalls calls are made on the table
MaxCalls == 4
\* an update map has at most MaxUpdates entries
MaxUpdates == 2
\* a CREATE TABLE column list has at most MaxCols entries
MaxCols == 2

---------------------------------------------------------------------------
(* Python values *)

None == [type |-> "NoneType", val |-> 0]
PyInt(n) == [type |-> "int", val |-> n]
PyFloat(halves) == [type |-> "float", val |-> halves]
PyBool(b) == [type |-> "bool", val |-> IF b THEN 1 ELSE 0]
PyStr(i) == [type |-> "str", val |-> i]

\* the texts a str value stands for, each a sequence of characters, in the
\* order of Python's str comparison (by code point: "A" < "B" < "a" < "b")
Texts == << <<"A">>, <<"B", "o", "b">>, <<"a">>, <<"b">> >>

\* the values the calls of the model are made with
Values == {None, PyInt(1), PyInt(2), PyFloat(3), PyBool(TRUE), PyBool(FALSE), PyStr(1), PyStr(2)}

\* s[i] of a Python list or tuple
At(s, i) == s[i + 1]

\* an optional argument: Absent when the caller leaves it out (Python's None
\* default), Some(x) when the caller passes x
Absent == [some |-> FALSE, value |-> 0]
Some(x) == [some |-> TRUE, value |-> x]

NoRet == <<>>
NoCall == [op |-> "none"]
NoLast == [op |-> "none", args |-> <<>>, raised |-> "", ret |-> NoRet]

---------------------------------------------------------------------------
(* src/config.py *)

\* SUPPORTED_TYPES: declared type name -> Python class
SUPPORTED_TYPES == [INT |-> "int", INTEGER |-> "int", TEXT |-> "str", STRING |-> "str", FLOAT |-> "float", REAL |-> "float", BOOLEAN |-> "bool", BOOL |-> "bool"]

\* isinstance(value, cls): cls is the value's class or a base class of it;
\* bool is a subclass of int in Python
isinstance(value, cls) == value.type = cls \/ (value.type = "bool" /\ cls = "int")

---------------------------------------------------------------------------
(* str methods on names *)

LowerCase == {"a", "b", "c", "d", "e", "f", "g", "h", "i", "j", "k", "l", "m", "n", "o", "p", "q", "r", "s", "t", "u", "v", "w", "x", "y", "z"}
UpperCase == {"A", "B", "C", "D", "E", "F", "G", "H", "I", "J", "K", "L", "M", "N", "O", "P", "Q", "R", "S", "T", "U", "V", "W", "X", "Y", "Z"}
Digits == {"1", "2"}

\* c.lower() for one character
LowerChar(c) ==
    CASE c = "A" -> "a" [] c = "B" -> "b" [] c = "C" -> "c" [] c = "D" -> "d" [] c = "E" -> "e" [] c = "F" -> "f" [] c = "G" -> "g"
      [] c = "H" -> "h" [] c = "I" -> "i" [] c = "J" -> "j" [] c = "K" -> "k" [] c = "L" -> "l" [] c = "M" -> "m" [] c = "N" -> "n"
      [] c = "O" -> "o" [] c = "P" -> "p" [] c = "Q" -> "q" [] c = "R" -> "r" [] c = "S" -> "s" [] c = "T" -> "t" [] c = "U" -> "u"
      [] c = "V" -> "v" [] c = "W" -> "w" [] c = "X" -> "x" [] c = "Y" -> "y" [] c = "Z" -> "z"
      [] OTHER -> c

\* name.lower()
lower(name) == [i \in DOMAIN name |-> LowerChar(name[i])]

isalpha(c) == c \in LowerCase \cup UpperCase
isalnum(c) == isalpha(c) \/ c \in Digits

\* data_type.upper() for the type spellings the model uses
upper(data_type) == CASE data_type = "int" -> "INT" [] data_type = "text" -> "TEXT" [] OTHER -> data_type

---------------------------------------------------------------------------
(* src/utils/helpers.py *)

MAX_COLUMN_NAME_LENGTH == 32
MAX_TABLE_NAME_LENGTH == 64

\* validate_column_name refusing a name of the maximum length as well
validate_column_name_below_max(name) ==
    IF name = <<>> \/ Len(name) >= MAX_COLUMN_NAME_LENGTH THEN FALSE
    ELSE IF ~(isalpha(name[1]) \/ name[1] = "_") THEN FALSE
    ELSE \A i \in DOMAIN name : isalnum(name[i]) \/ name[i] = "_"

validate_column_name(name) ==
    IF name = <<>> \/ Len(name) > MAX_COLUMN_NAME_LENGTH THEN FALSE
    ELSE IF ~(isalpha(name[1]) \/ name[1] = "_") THEN FALSE
    ELSE \A i \in DOMAIN name : isalnum(name[i]) \/ name[i] = "_"

validate_table_name(name) ==
    IF name = <<>> \/ Len(name) > MAX_TABLE_NAME_LENGTH THEN FALSE
    ELSE IF ~(isalpha(name[1]) \/ name[1] = "_") THEN FALSE
    ELSE \A i \in DOMAIN name : isalnum(name[i]) \/ name[i] = "_"

---------------------------------------------------------------------------
(* src/core/table.py: Column *)

\* Column.__init__: the exception it raises, "" when the column is built
ColumnInitError(col_def) ==
    IF ~validate_column_name(col_def.name) THEN "ColumnError"
    ELSE IF upper(col_def.type) \notin DOMAIN SUPPORTED_TYPES THEN "ColumnError"
    ELSE ""

\* the Column object Column.__init__ builds
Column(col_def) == [name |-> col_def.name, data_type |-> upper(col_def.type), nullable |-> col_def.nullable, primary_key |-> col_def.primary_key]

\* Column.validate_value
validate_value(column, value) ==
    IF value = None THEN column.nullable
    ELSE isinstance(value, SUPPORTED_TYPES[column.data_type])

---------------------------------------------------------------------------
(* src/core/table.py: Table construction *)

\* _validate_schema without its check of the primary keys
_validate_schema_without_key_check(cols) ==
    IF cols = <<>> THEN "TableError"
    ELSE IF Len(cols) # Cardinality({cols[i].name : i \in DOMAIN cols}) THEN "TableError"
    ELSE ""

\* Table._validate_schema on the built columns: the exception, "" when none
_validate_schema(cols) ==
    IF cols = <<>> THEN "TableError"
    ELSE IF Len(cols) # Cardinality({cols[i].name : i \in DOMAIN cols}) THEN "TableError"
    ELSE IF Cardinality({i \in DOMAIN cols : cols[i].primary_key}) > 1 THEN "TableError"
    ELSE ""

\* Table.__init__: the exception it raises, "" when the table is built
TableInitError(name, col_defs) ==
    IF ~validate_table_name(name) THEN "TableError"
    ELSE IF \E i \in DOMAIN col_defs : ColumnInitError(col_defs[i]) # "" THEN "ColumnError"
    ELSE _validate_schema([i \in DOMAIN col_defs |-> Column(col_defs[i])])

\* Table.__init__ building every column with the default nullable flag
TableColumnsAllNullable(col_defs) == [i \in DOMAIN col_defs |-> [Column(col_defs[i]) EXCEPT !.nullable = TRUE]]

\* the columns of the table Table.__init__ builds
TableColumns(col_defs) == [i \in DOMAIN col_defs |-> Column(col_defs[i])]

\* Table.__init__ as one step: the pending call Table(name, columns) is made
Construct ==
    /\ call.op = "Table"
    /\ LET exc == TableInitError(call.name, call.columns)
       IN IF exc # ""
          THEN /\ last' = [op |-> "Table", args |-> <<call.name, call.columns>>, raised |-> exc, ret |-> <<>>]
               /\ UNCHANGED <<columns, data, indexes, next_row_id>>
          ELSE /\ last' = [op |-> "Table", args |-> <<call.name, call.columns>>, raised |-> "", ret |-> <<>>]
               /\ columns' = TableColumns(call.columns)
               /\ data' = <<>>
               /\ indexes' = [n \in {} |-> <<>>]
               /\ next_row_id' = 1
    /\ call' = NoCall
    /\ UNCHANGED <<issued, deleted, tables, ncalls>>

\* Column.__init__ as one step: the pending call Column(name, data_type, nullable, primary_key)
ConstructColumn ==
    /\ call.op = "Column"
    /\ LET exc == ColumnInitError(call.col_def)
       IN last' = [op |-> "Column", args |-> <<call.col_def>>, raised |-> exc, ret |-> IF exc = "" THEN Column(call.col_def) ELSE NoRet]
    /\ call' = NoCall
    /\ UNCHANGED <<columns, data, indexes, next_row_id, issued, deleted, tables, ncalls>>

\* Column.validate_value as one step: the pending call column.validate_value(value)
ValidateValue ==
    /\ call.op = "validate_value"
    /\ last' = [op |-> "validate_value", args |-> <<call.column, call.value>>, raised |-> "", ret |-> validate_value(call.column, call.value)]
    /\ call' = NoCall
    /\ UNCHANGED <<columns, data, indexes, next_row_id, issued, deleted, tables, ncalls>>

---------------------------------------------------------------------------
(* src/core/table.py: column lookup *)

\* the positions (0-based) of the columns whose name equals `name` ignoring case
Matching(cols, name) == {i \in 0..(Len(cols) - 1) : lower(At(cols, i).name) = lower(name)}

Smallest(S) == CHOOSE i \in S : \A j \in S : i <= j

\* Table.get_column_by_name is not None
has_column(cols, name) == Matching(cols, name) # {}

\* Table.get_column_by_name, for a name that has a column: the first match
get_column_by_name(cols, name) == At(cols, Smallest(Matching(cols, name)))

\* Table.get_column_index, for a name that has a column: the first match
get_column_index(cols, name) == Smallest(Matching(cols, name))

\* validate_row checking the number of values only
validate_row_arity_only(cols, row_data) == Len(row_data) = Len(cols)

\* Table.validate_row
validate_row(cols, row_data) ==
    IF Len(row_data) # Len(cols) THEN FALSE
    ELSE \A i \in DOMAIN cols : validate_value(cols[i], row_data[i])

\* Table._find_row_by_id: the position (0-based) of the first row with the id, -1 for None
_find_row_by_id(rows, row_id) ==
    LET hits == {i \in 0..(Len(rows) - 1) : At(At(rows, i), 0) = row_id}
    IN IF hits = {} THEN -1 ELSE Smallest(hits)

\* list.pop(i)
Pop(s, i) == [k \in 1..(Len(s) - 1) |-> IF k <= i THEN s[k] ELSE s[k + 1]]

---------------------------------------------------------------------------
(* The index objects (src/indexes/*.py): an index maps a key of its column *)
(* to the ids of the rows holding it, kept here as a set of <<key, id>>.   *)

\* BTreeIndex(column_name, column_index) and HashIndex(column_name, column_index):
\* the two kinds keep the same associations, so one value stands for both
NewIndex(column_name, column_index) == [column_name |-> column_name, column_index |-> column_index, entries |-> {}]

\* index.insert(row): adds the row id under the key of the row's column
IndexInsert(index, row) == [index EXCEPT !.entries = @ \cup {<<At(row, index.column_index + 1), At(row, 0)>>}]

\* index.delete(row): removes the row id from the entry of the row's key
IndexDelete(index, row) == [index EXCEPT !.entries = @ \ {<<At(row, index.column_index + 1), At(row, 0)>>}]

\* Table._update_indexes
_update_indexes(ixs, row) == [n \in DOMAIN ixs |-> IndexInsert(ixs[n], row)]

\* Table._remove_from_indexes
_remove_from_indexes(ixs, row) == [n \in DOMAIN ixs |-> IndexDelete(ixs[n], row)]

---------------------------------------------------------------------------
(* The table of the specification Spec and the inputs of its calls *)

ColDef(name, type, nullable, primary_key) == [name |-> name, type |-> type, nullable |-> nullable, primary_key |-> primary_key]

TableName == <<"t">>

\* the column lists the table of Spec is constructed from; Init keeps those
\* Table.__init__ accepts
TableDefs ==
    { << ColDef(<<"a">>, "BOOL", FALSE, FALSE) >>,
      << ColDef(<<"a">>, "int", FALSE, TRUE), ColDef(<<"b">>, "TEXT", TRUE, FALSE) >>,
      << ColDef(<<"a">>, "TEXT", FALSE, FALSE), ColDef(<<"A">>, "INT", FALSE, FALSE) >>,
      << ColDef(<<"a">>, "INT", TRUE, TRUE), ColDef(<<"b">>, "INT", TRUE, TRUE) >>,
      << >> }

\* the values rows are inserted with
RowValues == {None, PyInt(1), PyBool(TRUE), PyStr(1)}

\* the row_data lists insert_row is called with: shorter than, as long as and
\* longer than the column list of each table of TableDefs
RowInputs == UNION {[1..n -> RowValues] : n \in {0, 1, 2}}

\* the entries of the update maps: a column name and its new value
UpdateEntry(name, value) == [name |-> name, value |-> value]
UpdateEntries == {UpdateEntry(<<"A">>, PyInt(2)), UpdateEntry(<<"A">>, None), UpdateEntry(<<"z">>, PyInt(2))}

\* the update maps update_row is called with: a dict keeps insertion order
\* and has no two entries with the same key
UpdateInputs == UNION {{u \in [1..n -> UpdateEntries] : \A i, j \in 1..n : u[i].name = u[j].name => i = j} : n \in 0..MaxUpdates}

\* the row ids update_row and delete_row are called with
RowIdInputs == {1, 2}

IndexNameInputs == {"ix"}
IndexColumnInputs == {<<"A">>, <<"z">>}
IndexTypeInputs == {"btree", "hash", "rtree"}

\* the arguments select_rows is called with; its where_clause and order_by
\* are left out in every call of Spec, as in Database.select_data
SelectColumnInputs == {Absent, Some(<< <<"*">> >>), Some(<< <<"b">>, <<"A">> >>), Some(<< <<"a">>, <<"z">> >>)}
SelectLimitInputs == {Absent, Some(1)}

NoIndexes == [n \in {} |-> NoRet]

\* Database.tables of a program that uses no Database: the empty dict
NoTables == [n \in {} |-> NoRet]

---------------------------------------------------------------------------
(* src/core/table.py: Table operations *)

Returned(op, args, ret) == [op |-> op, args |-> args, raised |-> "", ret |-> ret]
Raised(op, args, exc) == [op |-> op, args |-> args, raised |-> exc, ret |-> NoRet]

\* insert_row setting the counter from the number of stored rows
InsertRowCountingRows(row_data) ==
    /\ call = NoCall
    /\ ncalls < MaxCalls
    /\ ncalls' = ncalls + 1
    /\ IF ~validate_row(columns, row_data)
       THEN /\ last' = Raised("insert_row", <<row_data>>, "ValidationError")
            /\ UNCHANGED <<data, indexes, next_row_id, issued>>
       ELSE /\ LET row_with_id == <<next_row_id>> \o row_data
               IN /\ data' = Append(data, row_with_id)
                  /\ indexes' = _update_indexes(indexes, row_with_id)
            /\ next_row_id' = Len(data) + 2
            /\ issued' = Append(issued, next_row_id)
            /\ last' = Returned("insert_row", <<row_data>>, next_row_id)
    /\ UNCHANGED <<columns, call, deleted, tables>>

\* Table.insert_row
InsertRow(row_data) ==
    /\ call = NoCall
    /\ ncalls < MaxCalls
    /\ ncalls' = ncalls + 1
    /\ IF ~validate_row(columns, row_data)
       THEN /\ last' = Raised("insert_row", <<row_data>>, "ValidationError")
            /\ UNCHANGED <<data, indexes, next_row_id, issued>>
       ELSE /\ LET row_with_id == <<next_row_id>> \o row_data
               IN /\ data' = Append(data, row_with_id)
                  /\ indexes' = _update_indexes(indexes, row_with_id)
            /\ next_row_id' = next_row_id + 1
            /\ issued' = Append(issued, next_row_id)
            /\ last' = Returned("insert_row", <<row_data>>, next_row_id)
    /\ UNCHANGED <<columns, call, deleted, tables>>

\* the loop of update_row writing each new value one place after the
\* column's place in the row
RECURSIVE ApplyUpdatesAtNextColumn(_, _, _)
ApplyUpdatesAtNextColumn(cols, new_row, updates) ==
    IF updates = <<>> THEN [raised |-> "", new_row |-> new_row]
    ELSE LET column_name == Head(updates).name
             new_value == Head(updates).value
         IN IF ~has_column(cols, column_name) THEN [raised |-> "ColumnError", new_row |-> new_row]
            ELSE IF ~validate_value(get_column_by_name(cols, column_name), new_value) THEN [raised |-> "ValidationError", new_row |-> new_row]
            ELSE ApplyUpdatesAtNextColumn(cols, [new_row EXCEPT ![get_column_index(cols, column_name) + 3] = new_value], Tail(updates))

\* the loop of Table.update_row over updates.items(): the exception that
\* ends it ("" when it completes) and new_row as the loop leaves it
RECURSIVE ApplyUpdates(_, _, _)
ApplyUpdates(cols, new_row, updates) ==
    IF updates = <<>> THEN [raised |-> "", new_row |-> new_row]
    ELSE LET column_name == Head(updates).name
             new_value == Head(updates).value
         IN IF ~has_column(cols, column_name) THEN [raised |-> "ColumnError", new_row |-> new_row]
            ELSE IF ~validate_value(get_column_by_name(cols, column_name), new_value) THEN [raised |-> "ValidationError", new_row |-> new_row]
            ELSE ApplyUpdates(cols, [new_row EXCEPT ![get_column_index(cols, column_name) + 2] = new_value], Tail(updates))

\* update_row applying the updates to the stored row itself, not to a copy
UpdateRowInPlace(row_id, updates) ==
    /\ call = NoCall
    /\ ncalls < MaxCalls
    /\ ncalls' = ncalls + 1
    /\ LET row_index == _find_row_by_id(data, row_id)
       IN IF row_index = -1
          THEN /\ last' = Returned("update_row", <<row_id, updates>>, FALSE)
               /\ UNCHANGED <<data, indexes>>
          ELSE LET applied == ApplyUpdates(columns, At(data, row_index), updates)
               IN IF applied.raised # ""
                  THEN /\ last' = Raised("update_row", <<row_id, updates>>, applied.raised)
                       /\ data' = [data EXCEPT ![row_index + 1] = applied.new_row]
                       /\ UNCHANGED indexes
                  ELSE /\ data' = [data EXCEPT ![row_index + 1] = applied.new_row]
                       /\ indexes' = _update_indexes(indexes, applied.new_row)
                       /\ last' = Returned("update_row", <<row_id, updates>>, TRUE)
    /\ UNCHANGED <<columns, next_row_id, call, issued, deleted, tables>>

\* Table.update_row
UpdateRow(row_id, updates) ==
    /\ call = NoCall
    /\ ncalls < MaxCalls
    /\ ncalls' = ncalls + 1
    /\ LET row_index == _find_row_by_id(data, row_id)
       IN IF row_index = -1
          THEN /\ last' = Returned("update_row", <<row_id, updates>>, FALSE)
               /\ UNCHANGED <<data, indexes>>
          ELSE LET applied == ApplyUpdates(columns, At(data, row_index), updates)
               IN IF applied.raised # ""
                  THEN /\ last' = Raised("update_row", <<row_id, updates>>, applied.raised)
                       /\ UNCHANGED <<data, indexes>>
                  ELSE /\ data' = [data EXCEPT ![row_index + 1] = applied.new_row]
                       /\ indexes' = _update_indexes(indexes, applied.new_row)
                       /\ last' = Returned("update_row", <<row_id, updates>>, TRUE)
    /\ UNCHANGED <<columns, next_row_id, call, issued, deleted, tables>>

\* Table.delete_row
DeleteRow(row_id) ==
    /\ call = NoCall
    /\ ncalls < MaxCalls
    /\ ncalls' = ncalls + 1
    /\ LET row_index == _find_row_by_id(data, row_id)
       IN IF row_index = -1
          THEN /\ last' = Returned("delete_row", <<row_id>>, FALSE)
               /\ UNCHANGED <<data, indexes, deleted>>
          ELSE LET deleted_row == At(data, row_index)
               IN /\ data' = Pop(data, row_index)
                  /\ indexes' = _remove_from_indexes(indexes, deleted_row)
                  /\ deleted' = deleted \cup {At(deleted_row, 0)}
                  /\ last' = Returned("delete_row", <<row_id>>, TRUE)
    /\ UNCHANGED <<columns, next_row_id, call, issued, tables>>

\* the loop of Table.create_index over self.data
RECURSIVE BuildIndex(_, _)
BuildIndex(index, rows) == IF rows = <<>> THEN index ELSE BuildIndex(IndexInsert(index, Head(rows)), Tail(rows))

\* create_index publishing the new index without building it from the rows
CreateIndexWithoutBackfill(index_name, column_name, index_type) ==
    /\ call = NoCall
    /\ ncalls < MaxCalls
    /\ ncalls' = ncalls + 1
    /\ IF ~has_column(columns, column_name)
       THEN /\ last' = Raised("create_index", <<index_name, column_name, index_type>>, "ColumnError")
            /\ UNCHANGED indexes
       ELSE IF index_type \notin {"btree", "hash"}
       THEN /\ last' = Raised("create_index", <<index_name, column_name, index_type>>, "IndexError")
            /\ UNCHANGED indexes
       ELSE LET index == NewIndex(column_name, get_column_index(columns, column_name))
            IN /\ indexes' = [n \in DOMAIN indexes \cup {index_name} |-> IF n = index_name THEN index ELSE indexes[n]]
               /\ last' = Returned("create_index", <<index_name, column_name, index_type>>, NoRet)
    /\ UNCHANGED <<columns, data, next_row_id, call, issued, deleted, tables>>

\* Table.create_index
CreateIndex(index_name, column_name, index_type) ==
    /\ call = NoCall
    /\ ncalls < MaxCalls
    /\ ncalls' = ncalls + 1
    /\ IF ~has_column(columns, column_name)
       THEN /\ last' = Raised("create_index", <<index_name, column_name, index_type>>, "ColumnError")
            /\ UNCHANGED indexes
       ELSE IF index_type \notin {"btree", "hash"}
       THEN /\ last' = Raised("create_index", <<index_name, column_name, index_type>>, "IndexError")
            /\ UNCHANGED indexes
       ELSE LET index == BuildIndex(NewIndex(column_name, get_column_index(columns, column_name)), data)
            IN /\ indexes' = [n \in DOMAIN indexes \cup {index_name} |-> IF n = index_name THEN index ELSE indexes[n]]
               /\ last' = Returned("create_index", <<index_name, column_name, index_type>>, NoRet)
    /\ UNCHANGED <<columns, data, next_row_id, call, issued, deleted, tables>>

\* rows[:limit]
SliceTo(rows, limit) ==
    IF limit >= 0 THEN SubSeq(rows, 1, IF limit < Len(rows) THEN limit ELSE Len(rows))
    ELSE SubSeq(rows, 1, IF Len(rows) + limit > 0 THEN Len(rows) + limit ELSE 0)

\* Table._filter_rows(None): a copy of self.data
_filter_rows_none(rows) == rows

\* Table.select_rows(columns, None, None, limit): the names it projects
select_columns(cols, columns_arg) ==
    IF ~columns_arg.some \/ columns_arg.value = << <<"*">> >> THEN [i \in DOMAIN cols |-> cols[i].name]
    ELSE columns_arg.value

\* Table.select_rows(columns, None, None, limit), for names that all have a
\* column: the rows it returns
select_rows(cols, rows, columns_arg, limit) ==
    LET names == select_columns(cols, columns_arg)
        select_indices == [k \in DOMAIN names |-> get_column_index(cols, names[k]) + 1]
        filtered_rows == _filter_rows_none(rows)
        limited_rows == IF limit.some /\ limit.value # 0 THEN SliceTo(filtered_rows, limit.value) ELSE filtered_rows
    IN [r \in DOMAIN limited_rows |-> [k \in DOMAIN select_indices |-> At(limited_rows[r], select_indices[k])]]

\* Table.select_rows(columns, None, None, limit)
SelectRows(columns_arg, limit) ==
    /\ call = NoCall
    /\ ncalls < MaxCalls
    /\ ncalls' = ncalls + 1
    /\ LET names == select_columns(columns, columns_arg)
       IN IF \E k \in DOMAIN names : ~has_column(columns, names[k])
          THEN last' = Raised("select_rows", <<columns_arg, limit>>, "ColumnError")
          ELSE last' = Returned("select_rows", <<columns_arg, limit>>, select_rows(columns, data, columns_arg, limit))
    /\ UNCHANGED <<columns, data, indexes, next_row_id, call, issued, deleted, tables>>

---------------------------------------------------------------------------
(* Spec: one table, constructed, under any sequence of calls *)

Init ==
    /\ \E col_defs \in TableDefs :
          /\ TableInitError(TableName, col_defs) = ""
          /\ columns = TableColumns(col_defs)
    /\ data = <<>>
    /\ indexes = NoIndexes
    /\ next_row_id = 1
    /\ call = NoCall
    /\ last = NoLast
    /\ issued = <<>>
    /\ deleted = {}
    /\ tables = NoTables
    /\ ncalls = 0

Next ==
    \/ \E row_data \in RowInputs : InsertRow(row_data)
    \/ \E row_id \in RowIdInputs, updates \in UpdateInputs : UpdateRow(row_id, updates)
    \/ \E row_id \in RowIdInputs : DeleteRow(row_id)
    \/ \E index_name \in IndexNameInputs, column_name \in IndexColumnInputs, index_type \in IndexTypeInputs : CreateIndex(index_name, column_name, index_type)
    \/ \E columns_arg \in SelectColumnInputs, limit \in SelectLimitInputs : SelectRows(columns_arg, limit)

Spec == Init /\ [][Next]_vars

---------------------------------------------------------------------------
(* SpecSchema: one call of Table(name, columns) on every column list of up *)
(* to MaxCols definitions                                                  *)

TableNameInputs == {<<"t">>, <<"1", "t">>}
ColumnNameInputs == {<<"a">>, <<"A">>, <<"b">>, <<"1", "a">>}
ColumnTypeInputs == {"INT", "text", "BLOB"}
ColDefInputs == [name : ColumnNameInputs, type : ColumnTypeInputs, nullable : BOOLEAN, primary_key : BOOLEAN]
ColDefListInputs == UNION {[1..n -> ColDefInputs] : n \in 0..MaxCols}

InitSchema ==
    /\ \E name \in TableNameInputs, col_defs \in ColDefListInputs : call = [op |-> "Table", name |-> name, columns |-> col_defs]
    /\ columns = <<>>
    /\ data = <<>>
    /\ indexes = NoIndexes
    /\ next_row_id = 0
    /\ last = NoLast
    /\ issued = <<>>
    /\ deleted = {}
    /\ tables = NoTables
    /\ ncalls = 0

SpecSchema == InitSchema /\ [][Construct]_vars

---------------------------------------------------------------------------
(* SpecValidate: one call of validate_value on every column type and value *)

ColumnInputs == {Column(ColDef(<<"a">>, type, nullable, FALSE)) : type \in DOMAIN SUPPORTED_TYPES, nullable \in BOOLEAN}

InitValidate ==
    /\ \E column \in ColumnInputs, value \in Values : call = [op |-> "validate_value", column |-> column, value |-> value]
    /\ columns = <<>>
    /\ data = <<>>
    /\ indexes = NoIndexes
    /\ next_row_id = 0
    /\ last = NoLast
    /\ issued = <<>>
    /\ deleted = {}
    /\ tables = NoTables
    /\ ncalls = 0

SpecValidate == InitValidate /\ [][ValidateValue]_vars

---------------------------------------------------------------------------
(* Python's comparisons of values *)

\* the number a numeric value (int, float, bool) stands for, in halves
Num(v) == IF v.type = "float" THEN v.val ELSE 2 * v.val

\* float('inf') and float('-inf'): beyond every number a value of the model holds
float_inf == [type |-> "float", val |-> 1000]
float_neg_inf == [type |-> "float", val |-> -1000]

IsNumber(v) == v.type \in {"int", "float", "bool"}

\* x == y: numbers compare by value across int, float and bool, texts with
\* texts, None with None; values of different kinds are unequal
py_eq(x, y) ==
    IF IsNumber(x) /\ IsNumber(y) THEN Num(x) = Num(y)
    ELSE x.type = y.type /\ x.val = y.val

\* x < y is defined (raises no TypeError): two numbers or two texts
Orderable(x, y) == (IsNumber(x) /\ IsNumber(y)) \/ (x.type = "str" /\ y.type = "str")

\* x < y for an orderable pair; texts compare by code point, which is the
\* order of Texts
py_lt(x, y) == IF IsNumber(x) THEN Num(x) < Num(y) ELSE x.val < y.val

\* the first position (1-based) where two tuples of the same length differ
\* under ==, 0 when they are equal
FirstDifference(t1, t2) ==
    LET differ == {i \in DOMAIN t1 : ~py_eq(t1[i], t2[i])}
    IN IF differ = {} THEN 0 ELSE Smallest(differ)

\* t1 < t2 raises TypeError: the first differing elements are not orderable
TupleUnorderable(t1, t2) == LET d == FirstDifference(t1, t2) IN d # 0 /\ ~Orderable(t1[d], t2[d])

\* t1 < t2 for tuples: decided by the first differing elements
tuple_lt(t1, t2) == LET d == FirstDifference(t1, t2) IN d # 0 /\ py_lt(t1[d], t2[d])

---------------------------------------------------------------------------
(* src/core/table.py: select_rows with a predicate, an ordering, a limit *)

Condition(type, left, operator, right) == [type |-> type, left |-> left, operator |-> operator, right |-> right]
OrderSpec(column, direction) == [column |-> column, direction |-> direction]

\* the operand of a condition as _evaluate_condition resolves it on a row: a
\* str that names a column is replaced by the row's value in that column
ResolveOperand(cols, row, operand) ==
    IF operand.type = "str" /\ has_column(cols, Texts[operand.val]) THEN At(row, get_column_index(cols, Texts[operand.val]) + 1)
    ELSE operand

\* _evaluate_condition resolving the left operand only
_evaluate_condition_left_only(cols, row, condition) ==
    IF condition.type # "comparison" THEN [raised |-> "", ret |-> FALSE]
    ELSE LET left == ResolveOperand(cols, row, condition.left)
             right == condition.right
             operator == condition.operator
         IN IF operator = "=" THEN [raised |-> "", ret |-> py_eq(left, right)]
            ELSE IF operator = "<>" THEN [raised |-> "", ret |-> ~py_eq(left, right)]
            ELSE IF operator \notin {"<", ">", "<=", ">="} THEN [raised |-> "", ret |-> FALSE]
            ELSE IF ~Orderable(left, right) THEN [raised |-> "TypeError", ret |-> FALSE]
            ELSE IF operator = "<" THEN [raised |-> "", ret |-> py_lt(left, right)]
            ELSE IF operator = ">" THEN [raised |-> "", ret |-> py_lt(right, left)]
            ELSE IF operator = "<=" THEN [raised |-> "", ret |-> ~py_lt(right, left)]
            ELSE [raised |-> "", ret |-> ~py_lt(left, right)]

\* Table._evaluate_condition: the exception it raises ("" when none; TypeError
\* is Python's, raised by an ordering comparison of unorderable values) and
\* the boolean it returns
_evaluate_condition(cols, row, condition) ==
    IF condition.type # "comparison" THEN [raised |-> "", ret |-> FALSE]
    ELSE LET left == ResolveOperand(cols, row, condition.left)
             right == ResolveOperand(cols, row, condition.right)
             operator == condition.operator
         IN IF operator = "=" THEN [raised |-> "", ret |-> py_eq(left, right)]
            ELSE IF operator = "<>" THEN [raised |-> "", ret |-> ~py_eq(left, right)]
            ELSE IF operator \notin {"<", ">", "<=", ">="} THEN [raised |-> "", ret |-> FALSE]
            ELSE IF ~Orderable(left, right) THEN [raised |-> "TypeError", ret |-> FALSE]
            ELSE IF operator = "<" THEN [raised |-> "", ret |-> py_lt(left, right)]
            ELSE IF operator = ">" THEN [raised |-> "", ret |-> py_lt(right, left)]
            ELSE IF operator = "<=" THEN [raised |-> "", ret |-> ~py_lt(right, left)]
            ELSE [raised |-> "", ret |-> ~py_lt(left, right)]

\* Table._filter_rows: the exception that ends the scan ("" when none) and
\* the rows kept
_filter_rows(cols, rows, where_clause) ==
    IF ~where_clause.some THEN [raised |-> "", rows |-> rows]
    ELSE IF \E i \in DOMAIN rows : _evaluate_condition(cols, rows[i], where_clause.value).raised # "" THEN [raised |-> "TypeError", rows |-> <<>>]
    ELSE LET keep(row) == _evaluate_condition(cols, row, where_clause.value).ret
         IN [raised |-> "", rows |-> SelectSeq(rows, keep)]

\* sort_key of Table._sort_rows, for order columns that all exist: the tuple
\* of the row's values in the order columns, None replaced by -inf under ASC
\* and by inf under any other direction
sort_key(cols, row, order_by) ==
    [k \in DOMAIN order_by |->
        LET value == At(row, get_column_index(cols, order_by[k].column) + 1)
        IN IF value = None THEN (IF order_by[k].direction = "ASC" THEN float_neg_inf ELSE float_inf) ELSE value]

\* sorted(rows, key=..., reverse=...) for keys that are pairwise orderable:
\* a stable sort, ascending by key, or descending when reverse is set; rows
\* of equal keys keep their order either way
sorted(rows, keys, reverse) ==
    LET before(i, j) ==
            IF reverse THEN tuple_lt(keys[j], keys[i]) \/ (~tuple_lt(keys[i], keys[j]) /\ i < j)
            ELSE tuple_lt(keys[i], keys[j]) \/ (~tuple_lt(keys[j], keys[i]) /\ i < j)
        rank(i) == Cardinality({j \in DOMAIN rows : j # i /\ before(j, i)})
    IN [r \in DOMAIN rows |-> rows[CHOOSE i \in DOMAIN rows : rank(i) = r - 1]]

\* Table._sort_rows: the exception it raises ("" when none) and the rows in
\* their new order. ColumnError comes from get_column_index in sort_key, which
\* runs once a row is there; TypeError from comparing two keys, which the sort
\* does for some pair of unorderable keys whenever there is one (lists of up
\* to three rows)
_sort_rows(cols, rows, order_by) ==
    IF rows = <<>> THEN [raised |-> "", rows |-> rows]
    ELSE IF \E k \in DOMAIN order_by : ~has_column(cols, order_by[k].column) THEN [raised |-> "ColumnError", rows |-> <<>>]
    ELSE LET keys == [i \in DOMAIN rows |-> sort_key(cols, rows[i], order_by)]
             reverse == \E k \in DOMAIN order_by : order_by[k].direction = "DESC"
         IN IF \E i, j \in DOMAIN rows : TupleUnorderable(keys[i], keys[j]) THEN [raised |-> "TypeError", rows |-> <<>>]
            ELSE [raised |-> "", rows |-> sorted(rows, keys, reverse)]

\* Table.select_rows(columns, where_clause, order_by, limit): the exception
\* it raises ("" when none) and the rows it returns
select_rows_full(cols, rows, columns_arg, where_clause, order_by, limit) ==
    LET names == select_columns(cols, columns_arg)
    IN IF \E k \in DOMAIN names : ~has_column(cols, names[k]) THEN [raised |-> "ColumnError", ret |-> NoRet]
       ELSE LET select_indices == [k \in DOMAIN names |-> get_column_index(cols, names[k]) + 1]
                filtered == _filter_rows(cols, rows, where_clause)
            IN IF filtered.raised # "" THEN [raised |-> filtered.raised, ret |-> NoRet]
               ELSE LET ordered == IF order_by.some /\ order_by.value # <<>> THEN _sort_rows(cols, filtered.rows, order_by.value) ELSE [raised |-> "", rows |-> filtered.rows]
                    IN IF ordered.raised # "" THEN [raised |-> ordered.raised, ret |-> NoRet]
                       ELSE LET limited_rows == IF limit.some /\ limit.value # 0 THEN SliceTo(ordered.rows, limit.value) ELSE ordered.rows
                            IN [raised |-> "", ret |-> [r \in DOMAIN limited_rows |-> [k \in DOMAIN select_indices |-> At(limited_rows[r], select_indices[k])]]]

\* Table.select_rows as one step: the pending call
\* select_rows(columns, where_clause, order_by, limit)
Select ==
    /\ call.op = "select_rows"
    /\ LET result == select_rows_full(columns, data, call.columns, call.where_clause, call.order_by, call.limit)
       IN last' = [op |-> "select_rows", args |-> <<call.columns, call.where_clause, call.order_by, call.limit>>, raised |-> result.raised, ret |-> result.ret]
    /\ call' = NoCall
    /\ UNCHANGED <<columns, data, indexes, next_row_id, issued, deleted, tables, ncalls>>

---------------------------------------------------------------------------
(* SpecSelect: one call of select_rows on a table of up to MaxRows rows     *)

\* a table of SpecSelect holds at most MaxRows rows
MaxRows == 2

\* the tables select_rows is called on: nullable INT and TEXT columns, and
\* two columns whose names differ in case only
SelectTableDefs ==
    { << ColDef(<<"a">>, "INT", TRUE, FALSE), ColDef(<<"b">>, "TEXT", TRUE, FALSE) >>,
      << ColDef(<<"a">>, "TEXT", FALSE, FALSE), ColDef(<<"A">>, "INT", FALSE, FALSE) >> }

\* the values of their rows: null, 1, 2, 'Bob', 'b'
SelectRowValues == {None, PyInt(1), PyInt(2), PyStr(2), PyStr(4)}

\* the rows insert_row accepts for the columns
ValidRows(cols) == {row \in [1..Len(cols) -> SelectRowValues] : validate_row(cols, row)}

\* the contents of a table after n inserts: ids 1..n in storage order
TableContents(cols) == UNION {{[i \in 1..n |-> <<i>> \o rows[i]] : rows \in [1..n -> ValidRows(cols)]} : n \in 0..MaxRows}

\* the operands of the predicates: 'A', 'b', 'Bob', 2, 1.0
OperandInputs == {PyStr(1), PyStr(4), PyStr(2), PyInt(2), PyFloat(2)}
OperatorInputs == {"=", "<>", "<", ">", "<=", ">=", "LIKE", "!="}
WhereInputs == {Condition("comparison", left, operator, right) : left \in OperandInputs, operator \in OperatorInputs, right \in OperandInputs} \cup {Condition("and", PyStr(1), "=", PyInt(2))}

OrderSpecInputs == {OrderSpec(column, direction) : column \in {<<"a">>, <<"b">>}, direction \in {"ASC", "DESC"}}
OrderInputs == UNION {{o \in [1..n -> OrderSpecInputs] : \A i, j \in 1..n : o[i].column = o[j].column => i = j} : n \in {0, 1, 2}} \cup {<< OrderSpec(<<"z">>, "ASC") >>}

LimitInputs == {Absent, Some(0), Some(1), Some(2)}
ProjectionInputs == {Absent, Some(<< <<"a">> >>)}

SelectCall(columns_arg, where_clause, order_by, limit) == [op |-> "select_rows", columns |-> columns_arg, where_clause |-> where_clause, order_by |-> order_by, limit |-> limit]

\* the calls: every predicate alone; every ordering with every limit and
\* projection; every non-empty ordering with every limit under one predicate
SelectCallInputs ==
    {SelectCall(Absent, Some(w), Absent, Absent) : w \in WhereInputs}
    \cup {SelectCall(c, Absent, o, l) : c \in ProjectionInputs, o \in {Absent} \cup {Some(x) : x \in OrderInputs}, l \in LimitInputs}
    \cup {SelectCall(Absent, Some(Condition("comparison", PyStr(1), "<>", PyInt(2))), Some(o), l) : o \in OrderInputs \ {<<>>}, l \in LimitInputs}

InitSelect ==
    /\ \E col_defs \in SelectTableDefs :
          /\ TableInitError(TableName, col_defs) = ""
          /\ columns = TableColumns(col_defs)
          /\ \E rows \in TableContents(TableColumns(col_defs)) :
                /\ data = rows
                /\ next_row_id = Len(rows) + 1
    /\ indexes = NoIndexes
    /\ call \in SelectCallInputs
    /\ last = NoLast
    /\ issued = <<>>
    /\ deleted = {}
    /\ tables = NoTables
    /\ ncalls = 0

SpecSelect == InitSelect /\ [][Select]_vars

---------------------------------------------------------------------------
(* SpecUpdate: one call of update_row on a table of up to MaxRows rows, the *)
(* last of the MaxCalls calls made on it                                   *)

\* the entries of the update maps: a text and a number under the name A, a
\* text and null under the name b, and a name of no column
UpdateRowEntries == {UpdateEntry(<<"A">>, PyStr(4)), UpdateEntry(<<"A">>, PyInt(2)), UpdateEntry(<<"b">>, PyStr(4)), UpdateEntry(<<"b">>, None), UpdateEntry(<<"z">>, PyInt(2))}

UpdateRowInputs == UNION {{u \in [1..n -> UpdateRowEntries] : \A i, j \in 1..n : u[i].name = u[j].name => i = j} : n \in 0..MaxUpdates}

InitUpdate ==
    /\ \E col_defs \in SelectTableDefs :
          /\ TableInitError(TableName, col_defs) = ""
          /\ columns = TableColumns(col_defs)
          /\ \E rows \in TableContents(TableColumns(col_defs)) :
                /\ data = rows
                /\ next_row_id = Len(rows) + 1
                /\ issued = [i \in 1..Len(rows) |-> i]
    /\ indexes = NoIndexes
    /\ call = NoCall
    /\ last = NoLast
    /\ deleted = {}
    /\ tables = NoTables
    /\ ncalls = MaxCalls - 1

NextUpdate == \E row_id \in RowIdInputs, updates \in UpdateRowInputs : UpdateRow(row_id, updates)

SpecUpdate == InitUpdate /\ [][NextUpdate]_vars

---------------------------------------------------------------------------
(* src/parser/tokenizer.py: Tokenizer. The statement is a sequence of       *)
(* characters, read at 0-based positions; a token's value is a sequence of  *)
(* characters as well.                                                      *)

MAX_SQL_LENGTH == 10000
MAX_TOKENS == 1000

\* config.SQL_KEYWORDS
SQL_KEYWORDS ==
    {
      <<"C", "R", "E", "A", "T", "E">>, <<"T", "A", "B", "L", "E">>, <<"I", "N", "S", "E", "R", "T">>,
      <<"I", "N", "T", "O">>, <<"V", "A", "L", "U", "E", "S">>, <<"S", "E", "L", "E", "C", "T">>,
      <<"F", "R", "O", "M">>, <<"W", "H", "E", "R", "E">>, <<"U", "P", "D", "A", "T", "E">>,
      <<"S", "E", "T">>, <<"D", "E", "L", "E", "T", "E">>, <<"B", "E", "G", "I", "N">>,
      <<"C", "O", "M", "M", "I", "T">>, <<"R", "O", "L", "L", "B", "A", "C", "K">>, <<"I", "N", "D", "E", "X">>,
      <<"P", "R", "I", "M", "A", "R", "Y">>, <<"K", "E", "Y">>, <<"F", "O", "R", "E", "I", "G", "N">>,
      <<"R", "E", "F", "E", "R", "E", "N", "C", "E", "S">>, <<"N", "O", "T">>, <<"N", "U", "L", "L">>,
      <<"D", "E", "F", "A", "U", "L", "T">>, <<"O", "R", "D", "E", "R">>, <<"B", "Y">>,
      <<"A", "S", "C">>, <<"D", "E", "S", "C">>, <<"L", "I", "M", "I", "T">>,
      <<"O", "F", "F", "S", "E", "T">>, <<"A", "N", "D">>, <<"O", "R">> }

\* Tokenizer.operators and Tokenizer.punctuation: the members of one character
\* (`char in self.operators` is asked of single characters only)
operators == {"=", "<", ">", "+", "-", "*", "/"}
punctuation == {"(", ")", ",", ";", ".", "*"}

isspace(c) == c \in {" ", "\n", "\t"}
isdigit(c) == c \in Digits

\* c.upper() for one character
UpperChar(c) ==
    CASE c = "a" -> "A" [] c = "b" -> "B" [] c = "c" -> "C" [] c = "d" -> "D" [] c = "e" -> "E" [] c = "f" -> "F" [] c = "g" -> "G"
      [] c = "h" -> "H" [] c = "i" -> "I" [] c = "j" -> "J" [] c = "k" -> "K" [] c = "l" -> "L" [] c = "m" -> "M" [] c = "n" -> "N"
      [] c = "o" -> "O" [] c = "p" -> "P" [] c = "q" -> "Q" [] c = "r" -> "R" [] c = "s" -> "S" [] c = "t" -> "T" [] c = "u" -> "U"
      [] c = "v" -> "V" [] c = "w" -> "W" [] c = "x" -> "X" [] c = "y" -> "Y" [] c = "z" -> "Z"
      [] OTHER -> c

\* value.upper() of a token's value
upper_value(value) == [i \in DOMAIN value |-> UpperChar(value[i])]

Token(token_type, value, position) == [type |-> token_type, value |-> value, position |-> position]

\* the tests of the scanning loops: sql[i].isdigit(), sql[i].isalnum() or
\* sql[i] == '_', and sql[i] != '\n'
InRun(kind, c) ==
    CASE kind = "digits" -> isdigit(c)
      [] kind = "word" -> isalnum(c) \/ c = "_"
      [] kind = "line" -> c # "\n"

\* `while i < len(sql) and <test>: i += 1`: the position after the longest
\* run of characters from position i on that pass the test, which is the
\* first position from i on whose character fails it, or len(sql)
EndOfRun(sql, i, kind) ==
    LET stops == {j \in i..(Len(sql) - 1) : ~InRun(kind, At(sql, j))}
    IN IF i >= Len(sql) THEN i
       ELSE IF stops = {} THEN Len(sql)
       ELSE CHOOSE j \in stops : \A other \in stops : j <= other

\* sql[i:j]
Slice(sql, i, j) == SubSeq(sql, i + 1, j)

\* the loop of Tokenizer._tokenize_string from position i on, value being
\* what it has collected: the exception ("" when none), the token, and the
\* position after the closing quote
RECURSIVE ScanString(_, _, _, _, _)
ScanString(sql, start, quote_char, i, value) ==
    IF i >= Len(sql) THEN [raised |-> "ParserError", token |-> NoRet, next |-> i]
    ELSE LET char == At(sql, i)
         IN IF char = quote_char
            THEN IF i + 1 < Len(sql) /\ At(sql, i + 1) = quote_char THEN ScanString(sql, start, quote_char, i + 2, Append(value, char))
                 ELSE [raised |-> "", token |-> Token("LITERAL", value, start), next |-> i + 1]
            ELSE IF char = "\\"
            THEN IF i + 1 < Len(sql) THEN ScanString(sql, start, quote_char, i + 2, Append(value, At(sql, i + 1)))
                 ELSE ScanString(sql, start, quote_char, i + 1, value)
            ELSE ScanString(sql, start, quote_char, i + 1, Append(value, char))

\* Tokenizer._tokenize_string
_tokenize_string(sql, start, quote_char) == ScanString(sql, start, quote_char, start + 1, <<>>)

\* Tokenizer._tokenize_number: an optional '-', the digits that follow, and
\* an optional '.' with the digits that follow it
_tokenize_number(sql, start) ==
    LET after_sign == IF At(sql, start) = "-" THEN start + 1 ELSE start
        after_int == EndOfRun(sql, after_sign, "digits")
        after_frac == IF after_int < Len(sql) /\ At(sql, after_int) = "." THEN EndOfRun(sql, after_int + 1, "digits") ELSE after_int
    IN [raised |-> "", token |-> Token("LITERAL", Slice(sql, start, after_frac), start), next |-> after_frac]

\* Tokenizer._tokenize_identifier
_tokenize_identifier(sql, start) ==
    LET i == EndOfRun(sql, start, "word")
        value == Slice(sql, start, i)
    IN IF upper_value(value) \in SQL_KEYWORDS THEN [raised |-> "", token |-> Token("KEYWORD", upper_value(value), start), next |-> i]
       ELSE [raised |-> "", token |-> Token("IDENTIFIER", value, start), next |-> i]

\* Tokenizer._tokenize_operator
_tokenize_operator(sql, start) ==
    LET char == At(sql, start)
    IN IF start + 1 < Len(sql) /\ <<char, At(sql, start + 1)>> \in {<<"<", "=">>, <<">", "=">>, <<"<", ">">>, <<"!", "=">>}
       THEN [raised |-> "", token |-> Token("OPERATOR", <<char, At(sql, start + 1)>>, start), next |-> start + 2]
       ELSE IF char \in operators THEN [raised |-> "", token |-> Token("OPERATOR", <<char>>, start), next |-> start + 1]
       ELSE IF char \in punctuation THEN [raised |-> "", token |-> Token("PUNCTUATION", <<char>>, start), next |-> start + 1]
       ELSE [raised |-> "ParserError", token |-> NoRet, next |-> start]

\* one iteration of the while loop of Tokenizer.tokenize at position i: the
\* exception that leaves it ("" when none), the tokens it appends (none for
\* white space and for a comment) and the position of the next iteration
LoopStep(sql, i) ==
    LET char == At(sql, i)
        scanned == IF char = "'" \/ char = "\"" THEN _tokenize_string(sql, i, char)
                   ELSE IF isdigit(char) \/ char = "-" THEN _tokenize_number(sql, i)
                   ELSE IF isalpha(char) \/ char = "_" THEN _tokenize_identifier(sql, i)
                   ELSE IF char \in operators \/ char \in punctuation THEN _tokenize_operator(sql, i)
                   ELSE [raised |-> "ParserError", token |-> NoRet, next |-> i]
    IN IF isspace(char) THEN [raised |-> "", tokens |-> <<>>, next |-> i + 1]
       ELSE IF char = "-" /\ i + 1 < Len(sql) /\ At(sql, i + 1) = "-" THEN [raised |-> "", tokens |-> <<>>, next |-> EndOfRun(sql, i, "line")]
       ELSE IF scanned.raised # "" THEN [raised |-> scanned.raised, tokens |-> <<>>, next |-> i]
       ELSE [raised |-> "", tokens |-> <<scanned.token>>, next |-> scanned.next]

\* up to n iterations of the while loop from position i on, as its first
\* half followed by its second half (the halving keeps the evaluation of a
\* long statement shallow): the exception that ends the loop ("" when none),
\* the tokens appended and the position reached
RECURSIVE Iterate(_, _, _)
Iterate(sql, i, n) ==
    IF i >= Len(sql) \/ n = 0 THEN [raised |-> "", tokens |-> <<>>, next |-> i]
    ELSE IF n = 1 THEN LoopStep(sql, i)
    ELSE LET first == Iterate(sql, i, n \div 2)
             rest == Iterate(sql, first.next, n - (n \div 2))
         IN IF first.raised # "" THEN first
            ELSE IF rest.raised # "" THEN rest
            ELSE [raised |-> "", tokens |-> first.tokens \o rest.tokens, next |-> rest.next]

\* the while loop of Tokenizer.tokenize from position i on, tokens being what
\* it has collected: the exception that ends it ("" when none) and the tokens
\* collected. Every iteration moves at least one character on, so the loop
\* makes at most len(sql) - i iterations.
Scan(sql, i, tokens) ==
    LET done == Iterate(sql, i, Len(sql) - i)
    IN IF done.raised # "" THEN [raised |-> done.raised, tokens |-> <<>>]
       ELSE [raised |-> "", tokens |-> tokens \o done.tokens]

\* tokenize with limits that reject a statement at the maximum length and a
\* token sequence at the maximum count
tokenize_rejecting_at_limit(sql) ==
    IF Len(sql) >= MAX_SQL_LENGTH THEN [raised |-> "ParserError", tokens |-> <<>>]
    ELSE LET scanned == Scan(sql, 0, <<>>)
         IN IF scanned.raised # "" THEN scanned
            ELSE IF Len(scanned.tokens) >= MAX_TOKENS THEN [raised |-> "ParserError", tokens |-> <<>>]
            ELSE scanned

\* Tokenizer.tokenize: the exception it raises ("" when none) and the tokens
\* it returns
tokenize(sql) ==
    IF Len(sql) > MAX_SQL_LENGTH THEN [raised |-> "ParserError", tokens |-> <<>>]
    ELSE LET scanned == Scan(sql, 0, <<>>)
         IN IF scanned.raised # "" THEN scanned
            ELSE IF Len(scanned.tokens) > MAX_TOKENS THEN [raised |-> "ParserError", tokens |-> <<>>]
            ELSE scanned

\* Tokenizer.tokenize as one step: the pending call tokenize(sql)
Tokenize ==
    /\ call.op = "tokenize"
    /\ LET result == tokenize(call.sql)
       IN last' = [op |-> "tokenize", args |-> <<call.sql>>, raised |-> result.raised, ret |-> result.tokens]
    /\ call' = NoCall
    /\ UNCHANGED <<columns, data, indexes, next_row_id, issued, deleted, tables, ncalls>>

---------------------------------------------------------------------------
(* SpecTokenize: one call of tokenize on every statement of up to MaxSqlLen *)
(* characters                                                              *)

MaxSqlLen == 4

\* the characters of the statements: a letter, a digit, a blank, a newline,
\* a quote, a minus and the characters of the comparison operators
SqlChars == {"a", "1", " ", "\n", "'", "-", "<", ">", "=", "!"}

SqlInputs == UNION {[1..n -> SqlChars] : n \in 0..MaxSqlLen}

\* the characters of statements of numbers: digits, a minus, a point, a
\* blank and a letter
NumberChars == {"1", "2", "-", ".", " ", "a"}

NumberInputs == UNION {[1..n -> NumberChars] : n \in 0..MaxSqlLen}

\* the characters of statements of punctuation: the six punctuation
\* characters, a letter and a blank
PunctuationChars == {"(", ")", ",", ";", ".", "*", "a", " "}

PunctuationInputs == UNION {[1..n -> PunctuationChars] : n \in 0..MaxSqlLen}

\* the characters of statements with a keyword (OR, in either case), a
\* string literal and an operator
KeywordChars == {"o", "r", "O", "a", " ", "'", "="}

KeywordInputs == UNION {[1..n -> KeywordChars] : n \in 0..MaxSqlLen}

\* n times the text unit, a sequence of characters
Repeated(unit, n) == [i \in 1..(n * Len(unit)) |-> unit[((i - 1) % Len(unit)) + 1]]

\* statements at and one over the maximum length and the maximum number of
\* tokens: a word, blanks, one-character tokens with and without blanks
\* between them, and characters that no token starts with
LongSqlInputs ==
    {Repeated(unit, n) : unit \in {<<"a">>, <<" ">>, <<"(">>, <<"!">>}, n \in {MAX_SQL_LENGTH, MAX_SQL_LENGTH + 1}}
    \cup {Repeated(unit, n) : unit \in {<<"(">>, <<"1", " ">>, <<"a", ",">>}, n \in {MAX_TOKENS - 1, MAX_TOKENS, MAX_TOKENS + 1}}
    \cup {Repeated(<<"a", ",">>, n) : n \in {MAX_TOKENS \div 2, (MAX_TOKENS \div 2) + 1}}

TokenizeInputs == SqlInputs \cup NumberInputs \cup PunctuationInputs \cup KeywordInputs \cup LongSqlInputs

InitTokenize ==
    /\ \E sql \in TokenizeInputs : call = [op |-> "tokenize", sql |-> sql]
    /\ columns = <<>>
    /\ data = <<>>
    /\ indexes = NoIndexes
    /\ next_row_id = 0
    /\ last = NoLast
    /\ issued = <<>>
    /\ deleted = {}
    /\ tables = NoTables
    /\ ncalls = 0

SpecTokenize == InitTokenize /\ [][Tokenize]_vars

---------------------------------------------------------------------------
(* SpecNames: one call of Column(...) or Table(...) with names around the   *)
(* maximum lengths                                                         *)

\* the name of n characters that starts with `first` and goes on with `rest`
NameOf(first, rest, n) == [i \in 1..n |-> IF i = 1 THEN first ELSE rest]

LongColumnNameInputs == {NameOf(first, rest, n) : first \in {"a", "_", "1"}, rest \in {"a", "2", "-"}, n \in {1, 31, 32, 33}}
LongTableNameInputs == {NameOf(first, rest, n) : first \in {"t", "_", "1"}, rest \in {"t", "2", "-"}, n \in {1, 63, 64, 65}}
LongColDefInputs == {ColDef(name, type, TRUE, FALSE) : name \in LongColumnNameInputs, type \in {"INT", "BLOB"}}
LongColDefListInputs == {<< ColDef(NameOf("a", "a", n), "INT", TRUE, FALSE) >> : n \in {32, 33}} \cup {<< ColDef(<<"a">>, "INT", TRUE, FALSE), ColDef(NameOf("b", "_", n), "TEXT", TRUE, FALSE) >> : n \in {32, 33}}

InitNames ==
    /\ \/ \E col_def \in LongColDefInputs : call = [op |-> "Column", col_def |-> col_def]
       \/ \E name \in LongTableNameInputs, col_defs \in LongColDefListInputs : call = [op |-> "Table", name |-> name, columns |-> col_defs]
    /\ columns = <<>>
    /\ data = <<>>
    /\ indexes = NoIndexes
    /\ next_row_id = 0
    /\ last = NoLast
    /\ issued = <<>>
    /\ deleted = {}
    /\ tables = NoTables
    /\ ncalls = 0

NextNames ==
    \/ ConstructColumn
    \/ Construct

SpecNames == InitNames /\ [][NextNames]_vars

---------------------------------------------------------------------------
(* src/core/db_engine.py: Database *)

\* at most MaxDbCalls calls are made on the database
MaxDbCalls == 3

\* the Table object Table.__init__ builds
Table(name, col_defs) == [name |-> name, columns |-> TableColumns(col_defs), data |-> <<>>, indexes |-> NoIndexes, next_row_id |-> 1]

\* insert_row taking the next row id before it validates the row
insert_row_counting_first(table, row_data) ==
    IF ~validate_row(table.columns, row_data) THEN [raised |-> "ValidationError", table |-> [table EXCEPT !.next_row_id = @ + 1], ret |-> NoRet]
    ELSE LET row_with_id == <<table.next_row_id>> \o row_data
         IN [raised |-> "", table |-> [table EXCEPT !.data = Append(@, row_with_id), !.indexes = _update_indexes(@, row_with_id), !.next_row_id = @ + 1], ret |-> table.next_row_id]

\* Table.insert_row on a Table object: the exception it raises ("" when
\* none), the object as the call leaves it, and the id it returns
insert_row(table, row_data) ==
    IF ~validate_row(table.columns, row_data) THEN [raised |-> "ValidationError", table |-> table, ret |-> NoRet]
    ELSE LET row_with_id == <<table.next_row_id>> \o row_data
         IN [raised |-> "", table |-> [table EXCEPT !.data = Append(@, row_with_id), !.indexes = _update_indexes(@, row_with_id), !.next_row_id = @ + 1], ret |-> table.next_row_id]

\* Database.create_table; "Exception" is Python's plain Exception
CreateTable(table_name, col_defs) ==
    /\ call = NoCall
    /\ ncalls < MaxDbCalls
    /\ ncalls' = ncalls + 1
    /\ IF table_name \in DOMAIN tables
       THEN /\ last' = Raised("create_table", <<table_name, col_defs>>, "Exception")
            /\ UNCHANGED tables
       ELSE IF TableInitError(table_name, col_defs) # ""
       THEN /\ last' = Raised("create_table", <<table_name, col_defs>>, TableInitError(table_name, col_defs))
            /\ UNCHANGED tables
       ELSE /\ tables' = [n \in DOMAIN tables \cup {table_name} |-> IF n = table_name THEN Table(table_name, col_defs) ELSE tables[n]]
            /\ last' = Returned("create_table", <<table_name, col_defs>>, [message |-> "created", table_name |-> table_name])
    /\ UNCHANGED <<columns, data, indexes, next_row_id, call, issued, deleted>>

\* Database.insert_data
InsertData(table_name, values) ==
    /\ call = NoCall
    /\ ncalls < MaxDbCalls
    /\ ncalls' = ncalls + 1
    /\ IF table_name \notin DOMAIN tables
       THEN /\ last' = Raised("insert_data", <<table_name, values>>, "Exception")
            /\ UNCHANGED tables
       ELSE LET inserted == insert_row(tables[table_name], values)
            IN /\ tables' = [tables EXCEPT ![table_name] = inserted.table]
               /\ last' = IF inserted.raised # "" THEN Raised("insert_data", <<table_name, values>>, inserted.raised)
                          ELSE Returned("insert_data", <<table_name, values>>, [message |-> "1 row inserted", table_name |-> table_name])
    /\ UNCHANGED <<columns, data, indexes, next_row_id, call, issued, deleted>>

\* Database.select_data
SelectData(table_name) ==
    /\ call = NoCall
    /\ ncalls < MaxDbCalls
    /\ ncalls' = ncalls + 1
    /\ IF table_name \notin DOMAIN tables
       THEN last' = Raised("select_data", <<table_name>>, "Exception")
       ELSE last' = Returned("select_data", <<table_name>>, [columns |-> tables[table_name].columns, rows |-> select_rows(tables[table_name].columns, tables[table_name].data, Absent, Absent)])
    /\ UNCHANGED <<columns, data, indexes, next_row_id, call, issued, deleted, tables>>

---------------------------------------------------------------------------
(* SpecDatabase: a Database, constructed, under any sequence of calls *)

DbTableNameInputs == {<<"t">>, <<"d">>, <<"1", "t">>}

DbColDefListInputs ==
    { << ColDef(<<"a">>, "BOOL", FALSE, FALSE) >>,
      << ColDef(<<"a">>, "int", FALSE, TRUE), ColDef(<<"b">>, "TEXT", TRUE, FALSE) >>,
      << ColDef(<<"a">>, "INT", TRUE, TRUE), ColDef(<<"b">>, "INT", TRUE, TRUE) >>,
      << ColDef(<<"a">>, "BLOB", TRUE, FALSE) >>,
      << >> }

DbRowInputs == {<<>>, <<PyBool(TRUE)>>, <<PyInt(1), PyStr(1)>>, <<PyInt(1), None>>, <<None, PyStr(1)>>}

InitDatabase ==
    /\ tables = NoTables
    /\ columns = <<>>
    /\ data = <<>>
    /\ indexes = NoIndexes
    /\ next_row_id = 0
    /\ call = NoCall
    /\ last = NoLast
    /\ issued = <<>>
    /\ deleted = {}
    /\ ncalls = 0

NextDatabase ==
    \/ \E table_name \in DbTableNameInputs, col_defs \in DbColDefListInputs : CreateTable(table_name, col_defs)
    \/ \E table_name \in DbTableNameInputs, values \in DbRowInputs : InsertData(table_name, values)
    \/ \E table_name \in DbTableNameInputs : SelectData(table_name)

SpecDatabase == InitDatabase /\ [][NextDatabase]_vars

---------------------------------------------------------------------------
(* src/interface/repl.py: run_repl. A line of input is a sequence of        *)
(* characters; the position of the loop is kept in `call`: at the prompt,  *)
(* left by `break`, or left by an exception that nothing catches.          *)

\* run_repl reads at most MaxReplLines lines
MaxReplLines == 6

\* str.strip()
RECURSIVE lstrip(_)
lstrip(s) == IF s # <<>> /\ isspace(s[1]) THEN lstrip(Tail(s)) ELSE s
RECURSIVE rstrip(_)
rstrip(s) == IF s # <<>> /\ isspace(s[Len(s)]) THEN rstrip(SubSeq(s, 1, Len(s) - 1)) ELSE s
strip(s) == rstrip(lstrip(s))

\* str.startswith(prefix)
startswith(s, prefix) == Len(s) >= Len(prefix) /\ SubSeq(s, 1, Len(prefix)) = prefix

\* str.split(): the words between runs of white space, from the 1-based
\* position i on, word being the word read so far and parts the words before it
RECURSIVE SplitWords(_, _, _, _)
SplitWords(s, i, word, parts) ==
    IF i > Len(s) THEN (IF word = <<>> THEN parts ELSE Append(parts, word))
    ELSE IF isspace(s[i]) THEN SplitWords(s, i + 1, <<>>, IF word = <<>> THEN parts ELSE Append(parts, word))
    ELSE SplitWords(s, i + 1, Append(word, s[i]), parts)

split(s) == SplitWords(s, 1, <<>>, <<>>)

\* str.split(sep) for a separator of one character: the texts between the
\* separators, the empty ones included
RECURSIVE SplitAt(_, _, _, _, _)
SplitAt(s, sep, i, word, parts) ==
    IF i > Len(s) THEN Append(parts, word)
    ELSE IF s[i] = sep THEN SplitAt(s, sep, i + 1, <<>>, Append(parts, word))
    ELSE SplitAt(s, sep, i + 1, Append(word, s[i]), parts)

split_sep(s, sep) == SplitAt(s, sep, 1, <<>>, <<>>)

\* a Python str whose text is the sequence of characters
PyText(chars) == [type |-> "str", val |-> chars]

\* Table(name, columns) for a list of str as the columns: the exception it
\* raises. The name is validated first; then col_def["name"] on the first
\* str raises TypeError; an empty list fails _validate_schema.
TableInitErrorOfTexts(name, column_texts) ==
    IF ~validate_table_name(name) THEN "TableError"
    ELSE IF column_texts # <<>> THEN "TypeError"
    ELSE "TableError"

\* Database.create_table as run_repl calls it, with a list of str: the
\* exception raised ("" when none), the tables after the call and the value
\* returned. Table(...) raises for every list of str, so the call never
\* registers a table.
create_table(tbls, table_name, column_texts) ==
    IF table_name \in DOMAIN tbls THEN [raised |-> "Exception", tables |-> tbls, ret |-> NoRet]
    ELSE [raised |-> TableInitErrorOfTexts(table_name, column_texts), tables |-> tbls, ret |-> NoRet]

\* Database.insert_data as run_repl calls it, with a list of str
insert_data(tbls, table_name, values) ==
    IF table_name \notin DOMAIN tbls THEN [raised |-> "Exception", tables |-> tbls, ret |-> NoRet]
    ELSE LET inserted == insert_row(tbls[table_name], [i \in DOMAIN values |-> PyText(values[i])])
         IN IF inserted.raised # "" THEN [raised |-> inserted.raised, tables |-> tbls, ret |-> NoRet]
            ELSE [raised |-> "", tables |-> [tbls EXCEPT ![table_name] = inserted.table], ret |-> [message |-> "1 row inserted", table_name |-> table_name]]

\* Database.select_data
select_data(tbls, table_name) ==
    IF table_name \notin DOMAIN tbls THEN [raised |-> "Exception", tables |-> tbls, ret |-> NoRet]
    ELSE [raised |-> "", tables |-> tbls, ret |-> [columns |-> tbls[table_name].columns, rows |-> select_rows(tbls[table_name].columns, tbls[table_name].data, Absent, Absent)]]

\* the positions of run_repl: at input("SQL> "), after `break`, and after an
\* exception has left the function
AtPrompt == [op |-> "input"]
AfterBreak == [op |-> "break"]
AfterException == [op |-> "raise"]

\* the texts "exit", "create table", "insert into" and "select"
ExitText == <<"e", "x", "i", "t">>
CreateTableText == <<"c", "r", "e", "a", "t", "e", " ", "t", "a", "b", "l", "e">>
InsertIntoText == <<"i", "n", "s", "e", "r", "t", " ", "i", "n", "t", "o">>
SelectText == <<"s", "e", "l", "e", "c", "t">>

\* the body of the while loop for the line read: the exception that leaves
\* it ("" when none), whether it leaves the loop by `break`, the tables after
\* it and what it prints. parts[2] and parts[3] raise IndexError on a line of
\* too few words.
ReplStep(tbls, line) ==
    LET cmd == strip(line)
        parts == split(cmd)
    IN IF lower(cmd) = ExitText THEN [raised |-> "", break |-> TRUE, tables |-> tbls, ret |-> NoRet]
       ELSE IF startswith(lower(cmd), CreateTableText)
       THEN IF Len(parts) < 4 THEN [raised |-> "IndexError", break |-> FALSE, tables |-> tbls, ret |-> NoRet]
            ELSE LET done == create_table(tbls, parts[3], split_sep(parts[4], ","))
                 IN [raised |-> done.raised, break |-> FALSE, tables |-> done.tables, ret |-> done.ret]
       ELSE IF startswith(lower(cmd), InsertIntoText)
       THEN IF Len(parts) < 4 THEN [raised |-> "IndexError", break |-> FALSE, tables |-> tbls, ret |-> NoRet]
            ELSE LET done == insert_data(tbls, parts[3], split_sep(parts[4], ","))
                 IN [raised |-> done.raised, break |-> FALSE, tables |-> done.tables, ret |-> done.ret]
       ELSE IF startswith(lower(cmd), SelectText)
       THEN LET done == select_data(tbls, parts[Len(parts)])
            IN [raised |-> done.raised, break |-> FALSE, tables |-> done.tables, ret |-> done.ret]
       ELSE [raised |-> "", break |-> FALSE, tables |-> tbls, ret |-> [message |-> "Unknown command"]]

\* one iteration of run_repl: the line is read at the prompt and executed;
\* an exception leaves run_repl, since the loop has no try statement
ReplLine(line) ==
    /\ call = AtPrompt
    /\ ncalls < MaxReplLines
    /\ ncalls' = ncalls + 1
    /\ LET step == ReplStep(tables, line)
       IN /\ last' = [op |-> "run_repl", args |-> <<line>>, raised |-> step.raised, ret |-> step.ret]
          /\ tables' = step.tables
          /\ call' = IF step.raised # "" THEN AfterException
                     ELSE IF step.break THEN AfterBreak
                     ELSE AtPrompt
    /\ UNCHANGED <<columns, data, indexes, next_row_id, issued, deleted>>

---------------------------------------------------------------------------
(* SpecRepl: run_repl on every sequence of up to MaxReplLines lines *)

\* the lines typed: exit, unknown commands, and create table, insert into
\* and select statements, complete and cut short
ReplLines ==
    {
      <<"e", "x", "i", "t">>,
      <<" ", "e", "x", "i", "t", " ">>,
      <<"e", "x", "i", "t", " ", "n", "o", "w">>,
      <<>>,
      <<"d", "r", "o", "p", " ", "t">>,
      <<"c", "r", "e", "a", "t", "e", " ", "t", "a", "b", "l", "e", " ", "t", " ", "a", ",", "b">>,
      <<"c", "r", "e", "a", "t", "e", " ", "t", "a", "b", "l", "e", " ", "d", " ", "a">>,
      <<"c", "r", "e", "a", "t", "e", " ", "t", "a", "b", "l", "e", " ", "t">>,
      <<"c", "r", "e", "a", "t", "e", " ", "t", "a", "b", "l", "e", " ", "1", "t", " ", "a">>,
      <<"c", "r", "e", "a", "t", "e", " ", "t", "a", "b", "l", "e">>,
      <<"c", "r", "e", "a", "t", "e", " ", "t", "a", "b", "l", "e", "s", " ", "t", " ", "a">>,
      <<"i", "n", "s", "e", "r", "t", " ", "i", "n", "t", "o", " ", "t", " ", "1", ",", "b">>,
      <<"I", "n", "s", "e", "r", "t", " ", "i", "n", "t", "o", " ", "t", " ", "1">>,
      <<"i", "n", "s", "e", "r", "t", " ", "i", "n", "t", "o", " ", "d", " ", "1">>,
      <<"i", "n", "s", "e", "r", "t", " ", "i", "n", "t", "o">>,
      <<"i", "n", "s", "e", "r", "t", " ", "i", "n", "t", "o", " ", "t">>,
      <<"s", "e", "l", "e", "c", "t", " ", "*", " ", "f", "r", "o", "m", " ", "t">>,
      <<"s", "e", "l", "e", "c", "t", " ", "*", " ", "f", "r", "o", "m", " ", "d">>,
      <<"s", "e", "l", "e", "c", "t">>,
      <<"s", "e", "l", "e", "c", "t", "e", "d">> }

InitRepl ==
    /\ tables = NoTables
    /\ call = AtPrompt
    /\ columns = <<>>
    /\ data = <<>>
    /\ indexes = NoIndexes
    /\ next_row_id = 0
    /\ last = NoLast
    /\ issued = <<>>
    /\ deleted = {}
    /\ ncalls = 0

NextRepl == \E line \in ReplLines : ReplLine(line)

SpecRepl == InitRepl /\ [][NextRepl]_vars

---------------------------------------------------------------------------
(* src/parser/parser.py: Parser. A parsing method takes the tokens and the  *)
(* 0-based current_index and yields the exception it raises ("" when none), *)
(* the current_index it leaves and the value it returns. The methods that  *)
(* parser.py calls and does not define (_peek_*, _expect_*, _advance,       *)
(* _parse_value, _parse_where_clause, _parse_order_by, _parse_limit,        *)
(* _parse_update, _parse_delete, _parse_transaction) follow the grammars    *)
(* and the error taxonomy of the specification.                            *)

\* the texts of the keywords the parser names, by keyword
Keyword ==
    ("CREATE" :> <<"C", "R", "E", "A", "T", "E">>)
    @@ ("TABLE" :> <<"T", "A", "B", "L", "E">>)
    @@ ("INSERT" :> <<"I", "N", "S", "E", "R", "T">>)
    @@ ("INTO" :> <<"I", "N", "T", "O">>)
    @@ ("VALUES" :> <<"V", "A", "L", "U", "E", "S">>)
    @@ ("SELECT" :> <<"S", "E", "L", "E", "C", "T">>)
    @@ ("FROM" :> <<"F", "R", "O", "M">>)
    @@ ("WHERE" :> <<"W", "H", "E", "R", "E">>)
    @@ ("ORDER" :> <<"O", "R", "D", "E", "R">>)
    @@ ("BY" :> <<"B", "Y">>)
    @@ ("LIMIT" :> <<"L", "I", "M", "I", "T">>)
    @@ ("UPDATE" :> <<"U", "P", "D", "A", "T", "E">>)
    @@ ("SET" :> <<"S", "E", "T">>)
    @@ ("DELETE" :> <<"D", "E", "L", "E", "T", "E">>)
    @@ ("BEGIN" :> <<"B", "E", "G", "I", "N">>)
    @@ ("COMMIT" :> <<"C", "O", "M", "M", "I", "T">>)
    @@ ("ROLLBACK" :> <<"R", "O", "L", "L", "B", "A", "C", "K">>)
    @@ ("NOT" :> <<"N", "O", "T">>)
    @@ ("NULL" :> <<"N", "U", "L", "L">>)
    @@ ("PRIMARY" :> <<"P", "R", "I", "M", "A", "R", "Y">>)
    @@ ("KEY" :> <<"K", "E", "Y">>)
    @@ ("ASC" :> <<"A", "S", "C">>)
    @@ ("DESC" :> <<"D", "E", "S", "C">>)

Parsed(index, value) == [raised |-> "", index |-> index, value |-> value]
Unexpected(index) == [raised |-> "SyntaxError", index |-> index, value |-> NoRet]

\* what a peek yields at the end of the tokens
NoToken == [type |-> "", value |-> <<>>, position |-> -1]

\* _peek_token: the current token
_peek_token(tokens, index) == IF index < Len(tokens) THEN At(tokens, index) ELSE NoToken

\* _peek_punctuation and _peek_keyword: the text of the current token when
\* it is of the kind, and the empty text otherwise
_peek_punctuation(tokens, index) == IF _peek_token(tokens, index).type = "PUNCTUATION" THEN _peek_token(tokens, index).value ELSE <<>>
_peek_keyword(tokens, index) == IF _peek_token(tokens, index).type = "KEYWORD" THEN _peek_token(tokens, index).value ELSE <<>>

\* _advance
_advance(index) == index + 1

\* _expect_keyword, _expect_punctuation: the current token must be of the
\* kind and have the text; it is consumed
_expect_keyword(tokens, index, keyword) ==
    IF _peek_keyword(tokens, index) = keyword THEN Parsed(_advance(index), keyword) ELSE Unexpected(index)
_expect_punctuation(tokens, index, char) ==
    IF _peek_punctuation(tokens, index) = <<char>> THEN Parsed(_advance(index), <<char>>) ELSE Unexpected(index)

\* _expect_identifier: the current token must be an IDENTIFIER; its text
_expect_identifier(tokens, index) ==
    IF _peek_token(tokens, index).type = "IDENTIFIER" THEN Parsed(_advance(index), _peek_token(tokens, index).value) ELSE Unexpected(index)

\* _parse_value: the current token must be a LITERAL; its lexical text
_parse_value(tokens, index) ==
    IF _peek_token(tokens, index).type = "LITERAL" THEN Parsed(_advance(index), _peek_token(tokens, index).value) ELSE Unexpected(index)

\* the constraint loop of _parse_column_definition from current_index on
RECURSIVE ColumnConstraints(_, _, _)
ColumnConstraints(tokens, index, column_def) ==
    IF index >= Len(tokens) THEN Parsed(index, column_def)
    ELSE LET token == _peek_token(tokens, index)
         IN IF token.type = "PUNCTUATION" /\ token.value \in {<<",">>, <<")">>} THEN Parsed(index, column_def)
            ELSE IF token.type = "KEYWORD" /\ token.value = Keyword["NOT"]
            THEN LET null == _expect_keyword(tokens, _advance(index), Keyword["NULL"])
                 IN IF null.raised # "" THEN null ELSE ColumnConstraints(tokens, null.index, [column_def EXCEPT !.nullable = FALSE])
            ELSE IF token.type = "KEYWORD" /\ token.value = Keyword["PRIMARY"]
            THEN LET key == _expect_keyword(tokens, _advance(index), Keyword["KEY"])
                 IN IF key.raised # "" THEN key ELSE ColumnConstraints(tokens, key.index, [column_def EXCEPT !.primary_key = TRUE])
            ELSE Parsed(index, column_def)

\* Parser._parse_column_definition
_parse_column_definition(tokens, index) ==
    LET column_name == _expect_identifier(tokens, index)
        data_type == _expect_identifier(tokens, column_name.index)
    IN IF column_name.raised # "" THEN column_name
       ELSE IF data_type.raised # "" THEN data_type
       ELSE ColumnConstraints(tokens, data_type.index, [name |-> column_name.value, type |-> data_type.value, nullable |-> TRUE, primary_key |-> FALSE])

\* the loop of _parse_create_table over the column definitions
RECURSIVE ColumnDefinitions(_, _, _)
ColumnDefinitions(tokens, index, columns_read) ==
    IF index >= Len(tokens) THEN Parsed(index, columns_read)
    ELSE LET column_def == _parse_column_definition(tokens, index)
             comma == _expect_punctuation(tokens, column_def.index, ",")
         IN IF column_def.raised # "" THEN column_def
            ELSE IF _peek_punctuation(tokens, column_def.index) = <<")">> THEN Parsed(column_def.index, Append(columns_read, column_def.value))
            ELSE IF comma.raised # "" THEN comma
            ELSE ColumnDefinitions(tokens, comma.index, Append(columns_read, column_def.value))

\* Parser._parse_create_table
_parse_create_table(tokens, index) ==
    LET create == _expect_keyword(tokens, index, Keyword["CREATE"])
        table == _expect_keyword(tokens, create.index, Keyword["TABLE"])
        table_name == _expect_identifier(tokens, table.index)
        open == _expect_punctuation(tokens, table_name.index, "(")
        column_defs == ColumnDefinitions(tokens, open.index, <<>>)
        close == _expect_punctuation(tokens, column_defs.index, ")")
    IN IF create.raised # "" THEN create
       ELSE IF table.raised # "" THEN table
       ELSE IF table_name.raised # "" THEN table_name
       ELSE IF open.raised # "" THEN open
       ELSE IF column_defs.raised # "" THEN column_defs
       ELSE IF close.raised # "" THEN close
       ELSE Parsed(close.index, [type |-> "CREATE_TABLE", table_name |-> table_name.value, columns |-> column_defs.value])

\* the loop of _parse_insert over the names of the column list
RECURSIVE InsertColumns(_, _, _)
InsertColumns(tokens, index, columns_read) ==
    IF index >= Len(tokens) THEN Parsed(index, columns_read)
    ELSE LET column == _expect_identifier(tokens, index)
             comma == _expect_punctuation(tokens, column.index, ",")
         IN IF column.raised # "" THEN column
            ELSE IF _peek_punctuation(tokens, column.index) = <<")">> THEN Parsed(column.index, Append(columns_read, column.value))
            ELSE IF comma.raised # "" THEN comma
            ELSE InsertColumns(tokens, comma.index, Append(columns_read, column.value))

\* the inner loop of _parse_insert over the values of one row
RECURSIVE RowValuesLoop(_, _, _)
RowValuesLoop(tokens, index, row_values) ==
    IF index >= Len(tokens) THEN Parsed(index, row_values)
    ELSE LET value == _parse_value(tokens, index)
             comma == _expect_punctuation(tokens, value.index, ",")
         IN IF value.raised # "" THEN value
            ELSE IF _peek_punctuation(tokens, value.index) = <<")">> THEN Parsed(value.index, Append(row_values, value.value))
            ELSE IF comma.raised # "" THEN comma
            ELSE RowValuesLoop(tokens, comma.index, Append(row_values, value.value))

\* the outer loop of _parse_insert over the rows: after a row, the loop is
\* left unless the next token is "(", and a "," is expected otherwise
RECURSIVE InsertRows(_, _, _)
InsertRows(tokens, index, values) ==
    IF index >= Len(tokens) THEN Parsed(index, values)
    ELSE LET open == _expect_punctuation(tokens, index, "(")
             row_values == RowValuesLoop(tokens, open.index, <<>>)
             close == _expect_punctuation(tokens, row_values.index, ")")
             comma == _expect_punctuation(tokens, close.index, ",")
         IN IF open.raised # "" THEN open
            ELSE IF row_values.raised # "" THEN row_values
            ELSE IF close.raised # "" THEN close
            ELSE IF _peek_punctuation(tokens, close.index) # <<"(">> THEN Parsed(close.index, Append(values, row_values.value))
            ELSE IF comma.raised # "" THEN comma
            ELSE InsertRows(tokens, comma.index, Append(values, row_values.value))

\* Parser._parse_insert
_parse_insert(tokens, index) ==
    LET insert == _expect_keyword(tokens, index, Keyword["INSERT"])
        into == _expect_keyword(tokens, insert.index, Keyword["INTO"])
        table_name == _expect_identifier(tokens, into.index)
        listed == _peek_punctuation(tokens, table_name.index) = <<"(">>
        column_names == IF listed THEN InsertColumns(tokens, _advance(table_name.index), <<>>) ELSE Parsed(table_name.index, <<>>)
        close == IF listed THEN _expect_punctuation(tokens, column_names.index, ")") ELSE column_names
        values_keyword == _expect_keyword(tokens, close.index, Keyword["VALUES"])
        rows == InsertRows(tokens, values_keyword.index, <<>>)
    IN IF insert.raised # "" THEN insert
       ELSE IF into.raised # "" THEN into
       ELSE IF table_name.raised # "" THEN table_name
       ELSE IF column_names.raised # "" THEN column_names
       ELSE IF close.raised # "" THEN close
       ELSE IF values_keyword.raised # "" THEN values_keyword
       ELSE IF rows.raised # "" THEN rows
       ELSE Parsed(rows.index, [type |-> "INSERT", table_name |-> table_name.value, columns |-> column_names.value, values |-> rows.value])

\* an operand of a condition: a LITERAL or an IDENTIFIER, its text
ParseOperand(tokens, index) ==
    IF _peek_token(tokens, index).type \in {"LITERAL", "IDENTIFIER"} THEN Parsed(_advance(index), _peek_token(tokens, index).value) ELSE Unexpected(index)

\* _parse_where_clause: WHERE operand operator operand
_parse_where_clause(tokens, index) ==
    LET where == _expect_keyword(tokens, index, Keyword["WHERE"])
        left == ParseOperand(tokens, where.index)
        operator == _peek_token(tokens, left.index)
        right == ParseOperand(tokens, _advance(left.index))
    IN IF where.raised # "" THEN where
       ELSE IF left.raised # "" THEN left
       ELSE IF operator.type # "OPERATOR" THEN Unexpected(left.index)
       ELSE IF right.raised # "" THEN right
       ELSE Parsed(right.index, [type |-> "comparison", left |-> left.value, operator |-> operator.value, right |-> right.value])

\* the keys of ORDER BY: col [ASC|DESC] {, col [ASC|DESC]}
RECURSIVE OrderKeys(_, _, _)
OrderKeys(tokens, index, keys) ==
    LET column == _expect_identifier(tokens, index)
        directed == _peek_keyword(tokens, column.index) \in {Keyword["ASC"], Keyword["DESC"]}
        direction == IF directed THEN _peek_keyword(tokens, column.index) ELSE Keyword["ASC"]
        after == IF directed THEN _advance(column.index) ELSE column.index
        key == [column |-> column.value, direction |-> direction]
    IN IF column.raised # "" THEN column
       ELSE IF _peek_punctuation(tokens, after) = <<",">> THEN OrderKeys(tokens, _advance(after), Append(keys, key))
       ELSE Parsed(after, Append(keys, key))

\* _parse_order_by
_parse_order_by(tokens, index) ==
    LET order == _expect_keyword(tokens, index, Keyword["ORDER"])
        by == _expect_keyword(tokens, order.index, Keyword["BY"])
    IN IF order.raised # "" THEN order
       ELSE IF by.raised # "" THEN by
       ELSE OrderKeys(tokens, by.index, <<>>)

\* _parse_limit: LIMIT n
_parse_limit(tokens, index) ==
    LET limit == _expect_keyword(tokens, index, Keyword["LIMIT"])
    IN IF limit.raised # "" THEN limit ELSE _parse_value(tokens, limit.index)

\* the loop of _parse_select over the names of the projection
RECURSIVE SelectColumns(_, _, _)
SelectColumns(tokens, index, columns_read) ==
    IF index >= Len(tokens) THEN Parsed(index, columns_read)
    ELSE LET column == _expect_identifier(tokens, index)
         IN IF column.raised # "" THEN column
            ELSE IF _peek_punctuation(tokens, column.index) # <<",">> THEN Parsed(column.index, Append(columns_read, column.value))
            ELSE SelectColumns(tokens, _advance(column.index), Append(columns_read, column.value))

\* the optional clauses of a statement: the clause is parsed when the
\* current token is its keyword, and absent otherwise
OptionalWhere(tokens, index) == IF _peek_keyword(tokens, index) = Keyword["WHERE"] THEN _parse_where_clause(tokens, index) ELSE Parsed(index, None)
OptionalOrderBy(tokens, index) == IF _peek_keyword(tokens, index) = Keyword["ORDER"] THEN _parse_order_by(tokens, index) ELSE Parsed(index, None)
OptionalLimit(tokens, index) == IF _peek_keyword(tokens, index) = Keyword["LIMIT"] THEN _parse_limit(tokens, index) ELSE Parsed(index, None)

\* Parser._parse_select
_parse_select(tokens, index) ==
    LET select == _expect_keyword(tokens, index, Keyword["SELECT"])
        projection == IF _peek_token(tokens, select.index).value = <<"*">> THEN Parsed(_advance(select.index), << <<"*">> >>)
                      ELSE SelectColumns(tokens, select.index, <<>>)
        from == _expect_keyword(tokens, projection.index, Keyword["FROM"])
        table_name == _expect_identifier(tokens, from.index)
        where_clause == OptionalWhere(tokens, table_name.index)
        order_by == OptionalOrderBy(tokens, where_clause.index)
        limit == OptionalLimit(tokens, order_by.index)
    IN IF select.raised # "" THEN select
       ELSE IF projection.raised # "" THEN projection
       ELSE IF from.raised # "" THEN from
       ELSE IF table_name.raised # "" THEN table_name
       ELSE IF where_clause.raised # "" THEN where_clause
       ELSE IF order_by.raised # "" THEN order_by
       ELSE IF limit.raised # "" THEN limit
       ELSE Parsed(limit.index, [type |-> "SELECT", columns |-> projection.value, table_name |-> table_name.value, where_clause |-> where_clause.value, order_by |-> order_by.value, limit |-> limit.value])

\* the assignments of UPDATE: col = val {, col = val}
RECURSIVE SetClause(_, _, _)
SetClause(tokens, index, assignments) ==
    LET column == _expect_identifier(tokens, index)
        equals == _peek_token(tokens, column.index)
        value == _parse_value(tokens, _advance(column.index))
        assignment == [column |-> column.value, value |-> value.value]
    IN IF column.raised # "" THEN column
       ELSE IF ~(equals.type = "OPERATOR" /\ equals.value = <<"=">>) THEN Unexpected(column.index)
       ELSE IF value.raised # "" THEN value
       ELSE IF _peek_punctuation(tokens, value.index) = <<",">> THEN SetClause(tokens, _advance(value.index), Append(assignments, assignment))
       ELSE Parsed(value.index, Append(assignments, assignment))

\* _parse_update: UPDATE name SET col = val {, col = val} [WHERE cond]
_parse_update(tokens, index) ==
    LET update == _expect_keyword(tokens, index, Keyword["UPDATE"])
        table_name == _expect_identifier(tokens, update.index)
        set == _expect_keyword(tokens, table_name.index, Keyword["SET"])
        set_clause == SetClause(tokens, set.index, <<>>)
        where_clause == OptionalWhere(tokens, set_clause.index)
    IN IF update.raised # "" THEN update
       ELSE IF table_name.raised # "" THEN table_name
       ELSE IF set.raised # "" THEN set
       ELSE IF set_clause.raised # "" THEN set_clause
       ELSE IF where_clause.raised # "" THEN where_clause
       ELSE Parsed(where_clause.index, [type |-> "UPDATE", table_name |-> table_name.value, set_clause |-> set_clause.value, where_clause |-> where_clause.value])

\* _parse_delete: DELETE FROM name [WHERE cond]
_parse_delete(tokens, index) ==
    LET delete == _expect_keyword(tokens, index, Keyword["DELETE"])
        from == _expect_keyword(tokens, delete.index, Keyword["FROM"])
        table_name == _expect_identifier(tokens, from.index)
        where_clause == OptionalWhere(tokens, table_name.index)
    IN IF delete.raised # "" THEN delete
       ELSE IF from.raised # "" THEN from
       ELSE IF table_name.raised # "" THEN table_name
       ELSE IF where_clause.raised # "" THEN where_clause
       ELSE Parsed(where_clause.index, [type |-> "DELETE", table_name |-> table_name.value, where_clause |-> where_clause.value])

\* _parse_transaction: BEGIN, COMMIT or ROLLBACK
_parse_transaction(tokens, index) ==
    Parsed(_advance(index), [type |-> "TRANSACTION", transaction_type |-> _peek_token(tokens, index).value])

\* Parser._parse_command
_parse_command(tokens, index) ==
    IF index >= Len(tokens) THEN Unexpected(index)
    ELSE LET token == At(tokens, index)
         IN IF token.type # "KEYWORD" THEN Unexpected(index)
            ELSE IF token.value = Keyword["CREATE"] THEN _parse_create_table(tokens, index)
            ELSE IF token.value = Keyword["INSERT"] THEN _parse_insert(tokens, index)
            ELSE IF token.value = Keyword["SELECT"] THEN _parse_select(tokens, index)
            ELSE IF token.value = Keyword["UPDATE"] THEN _parse_update(tokens, index)
            ELSE IF token.value = Keyword["DELETE"] THEN _parse_delete(tokens, index)
            ELSE IF token.value \in {Keyword["BEGIN"], Keyword["COMMIT"], Keyword["ROLLBACK"]} THEN _parse_transaction(tokens, index)
            ELSE Unexpected(index)

\* the end of parse, returning the command also when tokens are left over
WholeCommandOrPart(tokens, command) ==
    IF command.raised # "" THEN [raised |-> command.raised, command |-> NoRet]
    ELSE [raised |-> "", command |-> command.value]

\* the end of Parser.parse, from the command that _parse_command built or
\* the exception it raised: the check for trailing tokens
WholeCommand(tokens, command) ==
    IF command.raised # "" THEN [raised |-> command.raised, command |-> NoRet]
    ELSE IF command.index < Len(tokens) THEN [raised |-> "SyntaxError", command |-> NoRet]
    ELSE [raised |-> "", command |-> command.value]

\* Parser.parse from the outcome of tokenize on
ParseTokenized(tokenized) ==
    IF tokenized.raised # "" THEN [raised |-> tokenized.raised, command |-> NoRet]
    ELSE IF tokenized.tokens = <<>> THEN [raised |-> "SyntaxError", command |-> NoRet]
    ELSE WholeCommand(tokenized.tokens, _parse_command(tokenized.tokens, 0))

\* Parser.parse: the exception it raises ("" when none) and the command
parse(sql) == ParseTokenized(tokenize(sql))

\* the outcome of the call parse(sql)
ParseOutcome(sql, result) == [op |-> "parse", args |-> <<sql>>, raised |-> result.raised, ret |-> result.command]

\* Parser.parse as one step: the pending call parse(sql)
Parse ==
    /\ call.op = "parse"
    /\ last' = ParseOutcome(call.sql, parse(call.sql))
    /\ call' = NoCall
    /\ UNCHANGED <<columns, data, indexes, next_row_id, issued, deleted, tables, ncalls>>

---------------------------------------------------------------------------
(* SpecParse: one call of parse on every statement of up to MaxParseWords   *)
(* words of a vocabulary, and on the prefixes and one-word extensions of    *)
(* statements of every kind                                                *)

MaxParseWords == 4

\* the words of a statement, with a blank after each
RECURSIVE JoinWords(_)
JoinWords(words) == IF words = <<>> THEN <<>> ELSE Head(words) \o <<" ">> \o JoinWords(Tail(words))

\* the vocabulary: keywords of three statements, a keyword that starts no
\* statement, the star, a name and a number
ParseWords == {<<"S", "E", "L", "E", "C", "T">>, <<"*">>, <<"F", "R", "O", "M">>, <<"t">>, <<"B", "E", "G", "I", "N">>, <<"I", "N", "D", "E", "X">>, <<"1">>, <<"D", "E", "L", "E", "T", "E">>}

WordInputs == UNION {[1..n -> ParseWords] : n \in 0..MaxParseWords}

\* statements of every kind, and one with a character no token starts with
ParseStatements == {
    <<<<"C", "R", "E", "A", "T", "E">>, <<"T", "A", "B", "L", "E">>, <<"t">>, <<"(">>, <<"a">>, <<"I", "N", "T">>, <<"N", "O", "T">>, <<"N", "U", "L", "L">>, <<"P", "R", "I", "M", "A", "R", "Y">>, <<"K", "E", "Y">>, <<",">>, <<"b">>, <<"T", "E", "X", "T">>, <<")">>>>,
    <<<<"I", "N", "S", "E", "R", "T">>, <<"I", "N", "T", "O">>, <<"t">>, <<"(">>, <<"a">>, <<",">>, <<"b">>, <<")">>, <<"V", "A", "L", "U", "E", "S">>, <<"(">>, <<"1">>, <<",">>, <<"'", "x", "'">>, <<")">>>>,
    <<<<"S", "E", "L", "E", "C", "T">>, <<"a">>, <<",">>, <<"b">>, <<"F", "R", "O", "M">>, <<"t">>, <<"W", "H", "E", "R", "E">>, <<"a">>, <<"<">>, <<"1">>, <<"O", "R", "D", "E", "R">>, <<"B", "Y">>, <<"a">>, <<"D", "E", "S", "C">>, <<",">>, <<"b">>, <<"L", "I", "M", "I", "T">>, <<"2">>>>,
    <<<<"U", "P", "D", "A", "T", "E">>, <<"t">>, <<"S", "E", "T">>, <<"a">>, <<"=">>, <<"1">>, <<",">>, <<"b">>, <<"=">>, <<"'", "x", "'">>, <<"W", "H", "E", "R", "E">>, <<"b">>, <<"=">>, <<"2">>>>,
    <<<<"D", "E", "L", "E", "T", "E">>, <<"F", "R", "O", "M">>, <<"t">>, <<"W", "H", "E", "R", "E">>, <<"a">>, <<">", "=">>, <<"1">>>>,
    <<<<"C", "O", "M", "M", "I", "T">>>>,
    <<<<"r", "o", "l", "l", "b", "a", "c", "k">>>>,
    <<<<"S", "E", "L", "E", "C", "T">>, <<"!">>, <<"F", "R", "O", "M">>, <<"t">>>>
}

\* the words a statement is extended by
TrailingWords == {<<"1">>, <<")">>, <<"S", "E", "L", "E", "C", "T">>, <<";">>, <<"t">>}

ParseInputs ==
    {JoinWords(words) : words \in WordInputs}
    \cup UNION {{JoinWords(SubSeq(statement, 1, n)) : n \in 0..Len(statement)} : statement \in ParseStatements}
    \cup {JoinWords(Append(statement, word)) : statement \in ParseStatements, word \in TrailingWords}

InitParse ==
    /\ \E sql \in ParseInputs : call = [op |-> "parse", sql |-> sql]
    /\ columns = <<>>
    /\ data = <<>>
    /\ indexes = NoIndexes
    /\ next_row_id = 0
    /\ last = NoLast
    /\ issued = <<>>
    /\ deleted = {}
    /\ tables = NoTables
    /\ ncalls = 0

SpecParse == InitParse /\ [][Parse]_vars

---------------------------------------------------------------------------
(* SpecInsert: one call of parse on every INSERT statement of up to        *)
(* MaxTuples value tuples of up to MaxValues values each                   *)

MaxTuples == 3
MaxValues == 2

\* the values of a tuple: the text written and the lexical text it stands for
InsertValues == {[text |-> <<"1">>, value |-> <<"1">>], [text |-> <<"'", "a", "'">>, value |-> <<"a">>]}

TupleInputs == UNION {[1..n -> InsertValues] : n \in 1..MaxValues}

RowsInputs == UNION {[1..k -> TupleInputs] : k \in 1..MaxTuples}

\* the column lists of the statements: none, and (a, b)
ColumnListInputs == {<<>>, <<"(", "a", ",", "b", ")", " ">>}

\* the texts of the values of a tuple, separated by the text sep
RECURSIVE JoinTexts(_, _)
JoinTexts(texts, sep) ==
    IF texts = <<>> THEN <<>>
    ELSE IF Len(texts) = 1 THEN Head(texts)
    ELSE Head(texts) \o sep \o JoinTexts(Tail(texts), sep)

TupleText(tuple) == <<"(">> \o JoinTexts([i \in 1..Len(tuple) |-> tuple[i].text], <<",", " ">>) \o <<")">>

\* the INSERT statement with the column list and the tuples, the tuples
\* separated by the text sep
InsertText(column_list, rows, sep) ==
    JoinWords(<<Keyword["INSERT"], Keyword["INTO"], <<"t">> >>) \o column_list \o Keyword["VALUES"] \o <<" ">>
        \o JoinTexts([k \in 1..Len(rows) |-> TupleText(rows[k])], sep)

\* the separators between two tuples: a comma, and a blank
TupleSeparators == {<<",", " ">>, <<" ">>}

InsertInputs == {InsertText(column_list, rows, sep) : column_list \in ColumnListInputs, rows \in RowsInputs, sep \in TupleSeparators}

InitInsert ==
    /\ \E sql \in InsertInputs : call = [op |-> "parse", sql |-> sql]
    /\ columns = <<>>
    /\ data = <<>>
    /\ indexes = NoIndexes
    /\ next_row_id = 0
    /\ last = NoLast
    /\ issued = <<>>
    /\ deleted = {}
    /\ tables = NoTables
    /\ ncalls = 0

NextInsert == Parse

SpecInsert == InitInsert /\ [][NextInsert]_vars

---------------------------------------------------------------------------
(* Claims *)

\* the step is a call of `op` on the table
CallMade(op) == ncalls' = ncalls + 1 /\ last'.op = op

\* what a full scan of the rows yields for the column at position column_index
FullScan(rows, column_index) == {<<At(rows[i], column_index + 1), At(rows[i], 0)>> : i \in DOMAIN rows}

\* the value is what the declared type of the column admits: null in a
\* nullable column, or a value whose class is exactly the declared one
TypeCorrect(column, value) ==
    \/ value = None /\ column.nullable
    \/ value # None /\ value.type = SUPPORTED_TYPES[column.data_type]

\* the rows without the row of the given id
WithoutRow(rows, row_id) == LET keep(row) == At(row, 0) # row_id IN SelectSeq(rows, keep)

\* C1: the ids of the stored rows strictly increase in storage order (so they
\* are pairwise distinct), the first id handed out is 1, every id insert_row
\* returns is greater than every id it returned before, and no stored row
\* carries the id of a deleted row.
C1_RowIdsIncreaseNeverReused ==
    /\ \A i, j \in DOMAIN data : i < j => At(data[i], 0) < At(data[j], 0)
    /\ issued # <<>> => issued[1] = 1
    /\ \A i, j \in DOMAIN issued : i < j => issued[i] < issued[j]
    /\ \A i \in DOMAIN data : At(data[i], 0) \notin deleted

\* C1 witness: a row was deleted and rows were inserted after and before it
C1_Witness ==
    /\ deleted # {}
    /\ Len(issued) >= 3
    /\ Len(data) >= 2
    /\ last.op = "insert_row" /\ last.raised = ""

\* C2: the entries of every attached index are exactly what a full scan of
\* the table yields for the indexed column: an id is under key k iff a stored
\* row of that id holds k in the column.
C2_IndexMatchesScan ==
    \A n \in DOMAIN indexes : indexes[n].entries = FullScan(data, indexes[n].column_index)

\* C3: every stored row is its row id followed by one value per declared
\* column, each of the column's declared type or null in a nullable column.
C3_RowsWellTyped ==
    \A i \in DOMAIN data :
        /\ Len(data[i]) = Len(columns) + 1
        /\ At(data[i], 0) \in 1..MaxCalls
        /\ \A k \in DOMAIN columns : TypeCorrect(columns[k], At(data[i], k))

\* C4: select_rows with no columns, predicate, ordering or limit returns the
\* stored rows, in storage order, each projected to the schema's columns in
\* schema order, without the row id.
C4_SelectAllReturnsStoredRows ==
    (last.op = "select_rows" /\ last.args = <<Absent, Absent>>) =>
        /\ last.raised = ""
        /\ last.ret = [i \in DOMAIN data |-> [k \in DOMAIN columns |-> At(data[i], k)]]

\* C5: insert_row raises ValidationError whenever the number of values is not
\* the number of columns or a value fails its column's validation, and then
\* leaves rows, counter and indexes as they were; otherwise it appends exactly
\* one row, the returned id followed by the values, at the end of storage.
C5_InsertValidatesOrAppends ==
    [][CallMade("insert_row") =>
        LET row_data == last'.args[1]
            both == DOMAIN row_data \cap DOMAIN columns
            invalid == Len(row_data) # Len(columns) \/ \E i \in both : ~validate_value(columns[i], row_data[i])
        IN IF invalid
           THEN last'.raised = "ValidationError" /\ UNCHANGED <<data, next_row_id, indexes>>
           ELSE last'.raised = "" /\ data' = Append(data, <<last'.ret>> \o row_data)]_vars

\* C5 witness: an insert of the right length failed on a value, on a table
\* that holds a row and has an index
C5_Witness ==
    /\ last.op = "insert_row" /\ last.raised = "ValidationError"
    /\ Len(last.args[1]) = Len(columns)
    /\ data # <<>>
    /\ DOMAIN indexes # {}

\* the entries of an update map that name no column, and those whose value
\* fails the validation of the column they name
UnknownColumnEntries(updates) == {i \in DOMAIN updates : ~has_column(columns, updates[i].name)}
InvalidValueEntries(updates) == {i \in DOMAIN updates : has_column(columns, updates[i].name) /\ ~validate_value(get_column_by_name(columns, updates[i].name), updates[i].value)}

\* C6 as stated: update_row returns the not-found signal when no stored row
\* has the id, raises ColumnError when any named column does not exist and
\* ValidationError when any new value fails validation; in each case rows and
\* indexes are left as they were.
C6_AsStated ==
    [][CallMade("update_row") =>
        LET row_id == last'.args[1]
            updates == last'.args[2]
            found == _find_row_by_id(data, row_id) # -1
        IN /\ ~found => last'.raised = "" /\ last'.ret = FALSE /\ UNCHANGED <<data, indexes>>
           /\ (found /\ UnknownColumnEntries(updates) # {}) => last'.raised = "ColumnError" /\ UNCHANGED <<data, indexes>>
           /\ (found /\ InvalidValueEntries(updates) # {}) => last'.raised = "ValidationError" /\ UNCHANGED <<data, indexes>>]_vars

\* C6 as amended: the error is decided by the first offending entry of the
\* map, in the map's order: ColumnError when it names no column,
\* ValidationError when its value fails validation; in each case, and when
\* the id is not found, rows and indexes are left as they were.
C6_FailedUpdateChangesNothing ==
    [][CallMade("update_row") =>
        LET row_id == last'.args[1]
            updates == last'.args[2]
            found == _find_row_by_id(data, row_id) # -1
            offending == UnknownColumnEntries(updates) \cup InvalidValueEntries(updates)
        IN /\ ~found => last'.raised = "" /\ last'.ret = FALSE /\ UNCHANGED <<data, indexes>>
           /\ (found /\ offending # {}) =>
                 /\ last'.raised = (IF Smallest(offending) \in UnknownColumnEntries(updates) THEN "ColumnError" ELSE "ValidationError")
                 /\ UNCHANGED <<data, indexes>>
           /\ (found /\ offending = {}) => last'.raised = "" /\ last'.ret = TRUE]_vars

\* C6 witness: an update failed on its second entry after a first entry that
\* was valid and would have changed the row, on a table with an index
C6_Witness ==
    /\ last.op = "update_row" /\ last.raised \in {"ColumnError", "ValidationError"}
    /\ Len(last.args[2]) = 2
    /\ 1 \notin UnknownColumnEntries(last.args[2]) \cup InvalidValueEntries(last.args[2])
    /\ \E i \in DOMAIN data :
          /\ At(data[i], 0) = last.args[1]
          /\ At(data[i], get_column_index(columns, last.args[2][1].name) + 1) # last.args[2][1].value
    /\ DOMAIN indexes # {}

\* C7: delete_row returns the not-found signal and changes nothing when no
\* stored row has the id; otherwise it removes exactly that row from storage,
\* keeping the other rows and their order, no attached index associates the
\* id with any key afterwards, the entries of other ids are kept, and the
\* counter is unchanged.
C7_DeleteRemovesRowEverywhere ==
    [][CallMade("delete_row") =>
        LET row_id == last'.args[1]
        IN IF _find_row_by_id(data, row_id) = -1
           THEN last'.raised = "" /\ last'.ret = FALSE /\ UNCHANGED <<data, indexes, next_row_id>>
           ELSE /\ last'.raised = "" /\ last'.ret = TRUE
                /\ data' = WithoutRow(data, row_id)
                /\ Len(data') = Len(data) - 1
                /\ DOMAIN indexes' = DOMAIN indexes
                /\ \A n \in DOMAIN indexes : indexes'[n].entries = {e \in indexes[n].entries : e[2] # row_id}
                /\ next_row_id' = next_row_id]_vars

\* C8: validate_value is true exactly when the value is null and the column
\* nullable, or the value is not null and its runtime type is exactly the
\* declared one.
C8_ValidateValueExactType ==
    last.op = "validate_value" => (last.ret <=> TypeCorrect(last.args[1], last.args[2]))

\* C9: construction from column definitions that are each valid fails with
\* TableError whenever two names are equal ignoring case; the names of a
\* constructed table are pairwise distinct ignoring case, and a lookup
\* ignoring case matches at most one column.
C9_ColumnNamesUniqueIgnoringCase ==
    last.op = "Table" =>
        LET col_defs == last.args[2]
            each_valid == validate_table_name(last.args[1]) /\ \A i \in DOMAIN col_defs : ColumnInitError(col_defs[i]) = ""
            clash == \E i, j \in DOMAIN col_defs : i # j /\ lower(col_defs[i].name) = lower(col_defs[j].name)
        IN /\ (each_valid /\ clash) => last.raised = "TableError"
           /\ last.raised = "" => \A i, j \in DOMAIN columns : i # j => lower(columns[i].name) # lower(columns[j].name)
           /\ last.raised = "" => \A name \in ColumnNameInputs : Cardinality(Matching(columns, name)) <= 1

PrimaryKeys(cols) == {i \in DOMAIN cols : cols[i].primary_key}

\* C10 as stated: construction raises TableError whenever the column list is
\* empty or more than one column is declared PRIMARY KEY; a constructed table
\* has at least one column and at most one primary-key column.
C10_AsStated ==
    last.op = "Table" =>
        LET col_defs == last.args[2]
        IN /\ (col_defs = <<>> \/ Cardinality(PrimaryKeys(col_defs)) > 1) => last.raised = "TableError"
           /\ last.raised = "" => Len(columns) >= 1 /\ Cardinality(PrimaryKeys(columns)) <= 1

\* C10 as amended: construction is rejected whenever the column list is empty
\* or more than one column is declared PRIMARY KEY: with ColumnError when the
\* table name is valid and a column definition is itself invalid (Column
\* construction comes first), with TableError otherwise; a constructed table
\* has at least one column and at most one primary-key column.
C10_EmptyOrTwoKeysRejected ==
    last.op = "Table" =>
        LET col_defs == last.args[2]
            column_fails == validate_table_name(last.args[1]) /\ \E i \in DOMAIN col_defs : ColumnInitError(col_defs[i]) # ""
        IN /\ (col_defs = <<>> \/ Cardinality(PrimaryKeys(col_defs)) > 1) => last.raised = (IF column_fails THEN "ColumnError" ELSE "TableError")
           /\ last.raised = "" => Len(columns) >= 1 /\ Cardinality(PrimaryKeys(columns)) <= 1

\* C10 witness: a valid name and two valid, differently named columns, both
\* PRIMARY KEY, were rejected with TableError
C10_Witness ==
    /\ last.op = "Table" /\ last.raised = "TableError"
    /\ validate_table_name(last.args[1])
    /\ Len(last.args[2]) = 2
    /\ \A i \in DOMAIN last.args[2] : ColumnInitError(last.args[2][i]) = "" /\ last.args[2][i].primary_key
    /\ last.args[2][1].name # last.args[2][2].name

\* a CREATE TABLE definition that the specification calls valid: the table
\* name and every column name follow the identifier rule within their maximum
\* lengths, every declared type is supported, there is at least one column,
\* no two column names are equal ignoring case, and at most one column is
\* declared PRIMARY KEY
ValidDefinition(table_name, col_defs) ==
    /\ validate_table_name(table_name)
    /\ col_defs # <<>>
    /\ \A i \in DOMAIN col_defs : validate_column_name(col_defs[i].name) /\ upper(col_defs[i].type) \in DOMAIN SUPPORTED_TYPES
    /\ \A i, j \in DOMAIN col_defs : i # j => lower(col_defs[i].name) # lower(col_defs[j].name)
    /\ Cardinality(PrimaryKeys(col_defs)) <= 1

\* C11: create_table with a valid definition and a name not yet registered
\* returns, and registers under that name a table whose columns are the
\* declared ones (name, type in its canonical spelling, nullable flag,
\* primary-key flag) in declared order, with no rows, no indexes and a next
\* row id of 1; the tables registered before are kept as they were.
C11_CreateTableRegistersDeclaredColumns ==
    [][CallMade("create_table") =>
        LET table_name == last'.args[1]
            col_defs == last'.args[2]
        IN (ValidDefinition(table_name, col_defs) /\ table_name \notin DOMAIN tables) =>
              /\ last'.raised = ""
              /\ DOMAIN tables' = DOMAIN tables \cup {table_name}
              /\ \A n \in DOMAIN tables : tables'[n] = tables[n]
              /\ Len(tables'[table_name].columns) = Len(col_defs)
              /\ \A i \in DOMAIN col_defs :
                    /\ tables'[table_name].columns[i].name = col_defs[i].name
                    /\ tables'[table_name].columns[i].data_type = upper(col_defs[i].type)
                    /\ tables'[table_name].columns[i].nullable = col_defs[i].nullable
                    /\ tables'[table_name].columns[i].primary_key = col_defs[i].primary_key
              /\ tables'[table_name].data = <<>>
              /\ DOMAIN tables'[table_name].indexes = {}
              /\ tables'[table_name].next_row_id = 1]_vars

\* C11 witness: a table of two differently declared columns was created next
\* to a table that holds a row
C11_Witness ==
    /\ last.op = "create_table" /\ last.raised = ""
    /\ Len(last.args[2]) = 2
    /\ last.args[2][1] # last.args[2][2]
    /\ \E n \in DOMAIN tables : n # last.args[1] /\ tables[n].data # <<>>

\* the identifier rule of the specification: a letter or underscore, then
\* letters, digits and underscores
IdentifierRule(name) ==
    /\ name # <<>>
    /\ name[1] \in LowerCase \cup UpperCase \cup {"_"}
    /\ \A i \in DOMAIN name : name[i] \in LowerCase \cup UpperCase \cup Digits \cup {"_"}

\* C12: constructing a Column whose name has more than 32 characters raises
\* ColumnError, and so does constructing a Table under a valid name from a
\* column list holding such a name; constructing a Table whose name has more
\* than 64 characters raises TableError; a Column of a supported type whose
\* name has exactly 32 characters and follows the identifier rule is built
\* under that name, and a Table whose name has exactly 64 characters and
\* follows the rule is built from a valid column list.
C12_NamesOverMaximumRejected ==
    /\ (last.op = "Column" /\ Len(last.args[1].name) > 32) => last.raised = "ColumnError"
    /\ (last.op = "Column" /\ Len(last.args[1].name) = 32 /\ IdentifierRule(last.args[1].name) /\ last.args[1].type \in DOMAIN SUPPORTED_TYPES) =>
          last.raised = "" /\ last.ret.name = last.args[1].name
    /\ (last.op = "Table" /\ Len(last.args[1]) > 64) => last.raised = "TableError"
    /\ (last.op = "Table" /\ Len(last.args[1]) <= 64 /\ IdentifierRule(last.args[1]) /\ \E i \in DOMAIN last.args[2] : Len(last.args[2][i].name) > 32) =>
          last.raised = "ColumnError"
    /\ (last.op = "Table" /\ Len(last.args[1]) = 64 /\ IdentifierRule(last.args[1]) /\ ValidDefinition(last.args[1], last.args[2])) =>
          last.raised = "" /\ [i \in DOMAIN columns |-> columns[i].name] = [i \in DOMAIN last.args[2] |-> last.args[2][i].name]

\* C12 witness: a table under a name of exactly 64 characters was built with
\* a column whose name has exactly 32 characters
C12_Witness ==
    /\ last.op = "Table" /\ last.raised = ""
    /\ Len(last.args[1]) = 64
    /\ \E i \in DOMAIN columns : Len(columns[i].name) = 32

\* the arguments of the select_rows call of SpecSelect that was made
SelectMade == last.op = "select_rows" /\ Len(last.args) = 4
ArgColumns == last.args[1]
ArgWhere == last.args[2]
ArgOrder == last.args[3]
ArgLimit == last.args[4]

\* the given rows as select_rows of every column, with no predicate,
\* ordering or limit, returns them
Shown(rows) == select_rows(columns, rows, Absent, Absent)

\* C13: a select_rows call with a limit n >= 0 that returns, returns the
\* first min(n, m) rows of what the same call returns without a limit (the
\* filtered, sorted and projected rows, m of them), so never more than n rows.
C13_LimitKeepsFirstRows ==
    (SelectMade /\ last.raised = "" /\ ArgLimit.some /\ ArgLimit.value >= 0) =>
        LET unlimited == select_rows_full(columns, data, ArgColumns, ArgWhere, ArgOrder, Absent).ret
            n == ArgLimit.value
            m == Len(unlimited)
        IN /\ last.ret = SubSeq(unlimited, 1, IF n < m THEN n ELSE m)
           /\ Len(last.ret) <= n

\* the value of a row in the column an ordering key names
KeyValue(row, key) == At(row, get_column_index(columns, key.column) + 1)

\* the row r1 is to come before the row r2 under the ordering spec: on the
\* first key on which they differ, r1 holds the smaller value if that key is
\* ASC, the greater if it is DESC
ComesBefore(r1, r2, order_by) ==
    LET differ == {k \in DOMAIN order_by : ~py_eq(KeyValue(r1, order_by[k]), KeyValue(r2, order_by[k]))}
    IN /\ differ # {}
       /\ LET d == Smallest(differ)
          IN IF order_by[d].direction = "ASC" THEN py_lt(KeyValue(r1, order_by[d]), KeyValue(r2, order_by[d]))
             ELSE py_lt(KeyValue(r2, order_by[d]), KeyValue(r1, order_by[d]))

\* the rows in the order of the stable multi-key sort
StableOrder(rows, order_by) ==
    LET before(i, j) == ComesBefore(rows[i], rows[j], order_by) \/ (~ComesBefore(rows[j], rows[i], order_by) /\ i < j)
        rank(i) == Cardinality({j \in DOMAIN rows : j # i /\ before(j, i)})
    IN [r \in DOMAIN rows |-> rows[CHOOSE i \in DOMAIN rows : rank(i) = r - 1]]

\* C14: select_rows of every column, with an ordering spec of one or more
\* existing columns and no predicate or limit, on rows that hold no null in
\* the key columns, returns the rows in the order of the stable multi-key
\* sort: by the first key in its own direction, ties broken by the following
\* keys each in its own direction, rows equal on all keys in insertion order.
C14_StableSortEachKeyItsDirection ==
    (/\ SelectMade /\ ~ArgColumns.some /\ ~ArgWhere.some /\ ~ArgLimit.some
     /\ ArgOrder.some /\ ArgOrder.value # <<>>
     /\ \A k \in DOMAIN ArgOrder.value : has_column(columns, ArgOrder.value[k].column)
     /\ \A i \in DOMAIN data : \A k \in DOMAIN ArgOrder.value : KeyValue(data[i], ArgOrder.value[k]) # None) =>
        /\ last.raised = ""
        /\ last.ret = Shown(StableOrder(data, ArgOrder.value))

\* C15: select_rows of every column ordered by one existing column, with no
\* predicate or limit, returns, and in its result every row that holds null
\* in the column comes before every row that holds a value if the direction
\* is ASC, and after it if the direction is DESC.
C15_NullsFirstAscendingLastDescending ==
    (/\ SelectMade /\ ~ArgColumns.some /\ ~ArgWhere.some /\ ~ArgLimit.some
     /\ ArgOrder.some /\ Len(ArgOrder.value) = 1
     /\ has_column(columns, ArgOrder.value[1].column)) =>
        /\ last.raised = ""
        /\ LET c == get_column_index(columns, ArgOrder.value[1].column) + 1
           IN \A i, j \in DOMAIN last.ret :
                 (last.ret[i][c] = None /\ last.ret[j][c] # None) => (IF ArgOrder.value[1].direction = "ASC" THEN i < j ELSE j < i)

\* two resolved operands of incompatible types: a text and a number
Incompatible(x, y) == (x.type = "str" /\ IsNumber(y)) \/ (IsNumber(x) /\ y.type = "str")

Comparisons == {"=", "<>", "<", ">", "<=", ">="}

\* C16: select_rows with a predicate of one of the six comparison operators
\* whose resolved operands, on some stored row, are a text and a number,
\* fails with TypeMismatch.
C16_IncompatibleOperandsFail ==
    (/\ SelectMade /\ ~ArgColumns.some /\ ArgWhere.some
     /\ ArgWhere.value.type = "comparison" /\ ArgWhere.value.operator \in Comparisons
     /\ \E i \in DOMAIN data : Incompatible(ResolveOperand(columns, data[i], ArgWhere.value.left), ResolveOperand(columns, data[i], ArgWhere.value.right))) =>
        last.raised = "TypeMismatch"

\* the columns an operand may stand for: the positions of the columns its
\* text names ignoring case; -1, the literal itself, when it names none
Candidates(operand) == IF operand.type = "str" /\ Matching(columns, Texts[operand.val]) # {} THEN Matching(columns, Texts[operand.val]) ELSE {-1}
OperandValue(row, operand, c) == IF c = -1 THEN operand ELSE At(row, c + 1)

\* the comparison holds for a pair of values, by the native ordering
Holds(operator, x, y) ==
    CASE operator = "=" -> py_eq(x, y)
      [] operator = "<>" -> ~py_eq(x, y)
      [] operator = "<" -> Orderable(x, y) /\ py_lt(x, y)
      [] operator = ">" -> Orderable(x, y) /\ py_lt(y, x)
      [] operator = "<=" -> Orderable(x, y) /\ ~py_lt(y, x)
      [] operator = ">=" -> Orderable(x, y) /\ ~py_lt(x, y)

\* C17: select_rows of every column with a comparison predicate and no
\* ordering or limit returns exactly the stored rows, in storage order, for
\* which the comparison holds after operand resolution: an operand whose text
\* names a column ignoring case stands for the row's value in that column,
\* any other operand for itself. (An ordering comparison that meets a pair of
\* values without a native order on some row is left to C16.)
C17_PredicateSelectsMatchingRows ==
    (/\ SelectMade /\ ~ArgColumns.some /\ ArgWhere.some /\ ~ArgOrder.some /\ ~ArgLimit.some
     /\ ArgWhere.value.type = "comparison" /\ ArgWhere.value.operator \in Comparisons) =>
        \E cl \in Candidates(ArgWhere.value.left), cr \in Candidates(ArgWhere.value.right) :
            LET left(row) == OperandValue(row, ArgWhere.value.left, cl)
                right(row) == OperandValue(row, ArgWhere.value.right, cr)
                no_order == ArgWhere.value.operator \in {"<", ">", "<=", ">="} /\ \E i \in DOMAIN data : ~Orderable(left(data[i]), right(data[i]))
                holds(row) == Holds(ArgWhere.value.operator, left(row), right(row))
            IN ~no_order => (last.raised = "" /\ last.ret = Shown(SelectSeq(data, holds)))

\* C17 witness: a predicate whose left operand names a column in another case
\* and whose right operand names a column kept one of two stored rows
C17_Witness ==
    /\ SelectMade /\ last.raised = "" /\ ArgWhere.some /\ ~ArgOrder.some /\ ~ArgLimit.some
    /\ ArgWhere.value.type = "comparison"
    /\ ArgWhere.value.left = PyStr(1) /\ ArgWhere.value.right = PyStr(4) /\ ArgWhere.value.operator = "<>"
    /\ has_column(columns, Texts[4])
    /\ Len(data) = 2 /\ Len(last.ret) = 1

C19_FailedCallLeavesDatabaseUnchanged ==
    [][(ncalls' = ncalls + 1 /\ last'.op \in {"create_table", "insert_data", "select_data"}) =>
        LET table_name == last'.args[1]
        IN /\ (last'.op = "create_table" /\ table_name \in DOMAIN tables) => last'.raised # ""
           /\ (last'.op \in {"insert_data", "select_data"} /\ table_name \notin DOMAIN tables) => last'.raised # ""
           /\ (last'.op = "insert_data" /\ table_name \in DOMAIN tables /\ ~validate_row(tables[table_name].columns, last'.args[2])) => last'.raised # ""
           /\ last'.raised # "" => tables' = tables]_vars

\* C19 witness: insert_data failed validation on a table that holds a row
C19_Witness ==
    /\ last.op = "insert_data" /\ last.raised = "ValidationError"
    /\ last.args[1] \in DOMAIN tables
    /\ tables[last.args[1]].data # <<>>

\* the two-character operators
TwoCharOperators == {<<"<", "=">>, <<">", "=">>, <<"<", ">">>, <<"!", "=">>}

\* characters that start or continue no string literal, comment or operator
PlainChars == {"a", "1", " "}

\* C20: in a statement that holds one of the operators <=, >=, <> and != at
\* some position and otherwise only letters, digits and blanks (so that the
\* operator stands outside every string literal and comment), tokenize
\* returns, and among its tokens is an OPERATOR token at that position whose
\* text is the two characters.
C20_TwoCharOperatorsAreOneToken ==
    last.op = "tokenize" =>
        LET sql == last.args[1]
        IN \A p \in 0..(Len(sql) - 2) :
              (/\ <<At(sql, p), At(sql, p + 1)>> \in TwoCharOperators
               /\ \A q \in 0..(Len(sql) - 1) : q \notin {p, p + 1} => At(sql, q) \in PlainChars) =>
                   /\ last.raised = ""
                   /\ \E k \in DOMAIN last.ret : last.ret[k] = Token("OPERATOR", <<At(sql, p), At(sql, p + 1)>>, p)

\* tokenize was called and returned
Tokenized == last.op = "tokenize" /\ last.raised = ""

\* the statement of the last call holds only characters of the set
Over(chars) == \A i \in DOMAIN last.args[1] : last.args[1][i] \in chars

\* value is an optional '-', a non-empty run of digits and, optionally, a
\* '.' with a non-empty run of digits after it
IsNumericLiteral(value) ==
    LET body == IF value # <<>> /\ value[1] = "-" THEN Tail(value) ELSE value
        points == {i \in DOMAIN body : body[i] = "."}
    IN /\ body # <<>>
       /\ \A i \in DOMAIN body : isdigit(body[i]) \/ body[i] = "."
       /\ Cardinality(points) <= 1
       /\ isdigit(body[1]) /\ isdigit(body[Len(body)])

\* C21: every LITERAL token that tokenize returns for a statement without a
\* quote character is a numeric literal: an optional '-', one or more digits
\* and, optionally, a '.' followed by one or more digits; none is without a
\* digit and none ends in '.'.
C21_LiteralsOfUnquotedInputAreNumeric ==
    (Tokenized /\ \A i \in DOMAIN last.args[1] : last.args[1][i] \notin {"'", "\""}) =>
        \A k \in DOMAIN last.ret : last.ret[k].type = "LITERAL" => IsNumericLiteral(last.ret[k].value)

\* C22: tokenize fails, returning no tokens, on every statement longer than
\* MAX_SQL_LENGTH, whatever it holds, and on every statement within that
\* length whose scan ends without an error with more than MAX_TOKENS tokens;
\* on a statement within both limits, the limits themselves included, whose
\* scan ends without an error it returns the tokens scanned.
C22_LimitsRejectOverAndAcceptAt ==
    last.op = "tokenize" =>
        LET sql == last.args[1]
            scanned == Scan(sql, 0, <<>>)
        IN /\ Len(sql) > MAX_SQL_LENGTH => (last.raised = "ParserError" /\ last.ret = <<>>)
           /\ (Len(sql) <= MAX_SQL_LENGTH /\ scanned.raised = "" /\ Len(scanned.tokens) > MAX_TOKENS) =>
                  (last.raised = "ParserError" /\ last.ret = <<>>)
           /\ (Len(sql) <= MAX_SQL_LENGTH /\ scanned.raised = "" /\ Len(scanned.tokens) <= MAX_TOKENS) =>
                  (last.raised = "" /\ last.ret = scanned.tokens)

\* C22 witness: a statement of MAX_TOKENS + 1 one-character tokens, within the
\* maximum length, was rejected
C22_Witness ==
    /\ last.op = "tokenize" /\ last.raised = "ParserError"
    /\ Len(last.args[1]) = MAX_TOKENS + 1
    /\ Over({"("})

\* ' '.join(token.value for token in tokens)
RECURSIVE JoinValues(_)
JoinValues(tokens) ==
    IF tokens = <<>> THEN <<>>
    ELSE IF Len(tokens) = 1 THEN tokens[1].value
    ELSE tokens[1].value \o <<" ">> \o JoinValues(Tail(tokens))

\* C23: when tokenize returns for a statement of up to MaxSqlLen characters,
\* tokenizing the texts of its tokens joined by blanks returns as many
\* tokens, each of the kind and the text of the token at its place in the
\* first sequence.
C23_RetokenizingJoinedTextsGivesSameTokens ==
    (Tokenized /\ Len(last.args[1]) <= MaxSqlLen) =>
        LET again == tokenize(JoinValues(last.ret))
        IN /\ again.raised = ""
           /\ Len(again.tokens) = Len(last.ret)
           /\ \A k \in DOMAIN last.ret :
                 again.tokens[k].type = last.ret[k].type /\ again.tokens[k].value = last.ret[k].value

\* the punctuation set of the tokenizer's contract
PunctuationSet == {"(", ")", ",", ";", ".", "*"}

\* C27: in a statement of up to MaxSqlLen characters that holds only
\* punctuation characters, letters and blanks (so that every character
\* stands outside string literals, comments and numbers), tokenize returns
\* and, for each position that holds one of ( ) , ; . *, among the tokens is
\* a PUNCTUATION token of that character at that position.
C27_PunctuationCharactersArePunctuationTokens ==
    (last.op = "tokenize" /\ Len(last.args[1]) <= MaxSqlLen /\ Over(PunctuationSet \cup {"a", " "})) =>
        LET sql == last.args[1]
        IN /\ last.raised = ""
           /\ \A p \in 0..(Len(sql) - 1) : At(sql, p) \in PunctuationSet =>
                 \E k \in DOMAIN last.ret : last.ret[k] = Token("PUNCTUATION", <<At(sql, p)>>, p)

\* C26: select_rows on a table that holds a row, with a predicate whose type
\* is not "comparison" or whose operator is none of =, <>, <, >, <=, >=,
\* fails: it does not return.
C26_UnsupportedConditionFails ==
    (/\ SelectMade /\ ArgWhere.some /\ data # <<>>
     /\ (ArgWhere.value.type # "comparison" \/ ArgWhere.value.operator \notin Comparisons)) =>
        last.raised # ""

\* the positions of the columns that some entry of the update map names,
\* ignoring case as the column lookups do
NamedColumns(updates) == UNION {Matching(columns, updates[e].name) : e \in DOMAIN updates}

\* C29: an update_row call that returns the success signal leaves the number
\* of stored rows, the next-row-id counter and the schema as they were;
\* every row keeps its place in storage order and its row id, every row
\* with another id is unchanged, and in the row with the id only values of
\* the columns that the update map names have changed.
C29_UpdateChangesOnlyNamedColumns ==
    [][(CallMade("update_row") /\ last'.raised = "" /\ last'.ret = TRUE) =>
        LET row_id == last'.args[1]
            updates == last'.args[2]
        IN /\ Len(data') = Len(data)
           /\ next_row_id' = next_row_id
           /\ columns' = columns
           /\ \A i \in DOMAIN data :
                 /\ Len(data'[i]) = Len(data[i])
                 /\ At(data'[i], 0) = At(data[i], 0)
                 /\ At(data[i], 0) # row_id => data'[i] = data[i]
                 /\ \A c \in 0..(Len(columns) - 1) :
                       At(data'[i], c + 1) # At(data[i], c + 1) => c \in NamedColumns(updates)]_vars

\* C29 witness: an update of the second of two rows returned the success
\* signal, having changed the value of the first column and named no other
C29_Witness ==
    /\ last.op = "update_row" /\ last.raised = "" /\ last.ret = TRUE
    /\ last.args[1] = 2 /\ Len(data) = 2 /\ Len(columns) = 2
    /\ Len(last.args[2]) = 1
    /\ At(data[2], 1) = last.args[2][1].value
    /\ At(data[2], 1) # At(data[1], 1)
    /\ At(data[2], 2) # None

\* C28: when the statement of a line read at the prompt fails, run_repl is
\* at the prompt again after it, and the tables of the database are as they
\* were before the line.
C28_FailingStatementDoesNotEndLoop ==
    [][(call = AtPrompt /\ last'.op = "run_repl" /\ ncalls' = ncalls + 1 /\ last'.raised # "") =>
        (call' = AtPrompt /\ tables' = tables)]_vars


\* the keywords that start a supported statement
SupportedStatements == {Keyword["CREATE"], Keyword["INSERT"], Keyword["SELECT"], Keyword["UPDATE"], Keyword["DELETE"], Keyword["BEGIN"], Keyword["COMMIT"], Keyword["ROLLBACK"]}

\* parse was called on a statement that tokenizes
ParsedTokens == tokenize(last.args[1]).tokens
ParseCalled == last.op = "parse" /\ tokenize(last.args[1]).raised = ""

\* the statement's grammar builds a command and leaves tokens unread
TokensLeftOver ==
    /\ ParsedTokens # <<>>
    /\ _parse_command(ParsedTokens, 0).raised = ""
    /\ _parse_command(ParsedTokens, 0).index < Len(ParsedTokens)

\* C24: parse returns a command only when the first token is a KEYWORD that
\* names a supported statement and the statement's grammar has consumed
\* every token; with no token, a first token that is not a keyword, an
\* unsupported keyword or a token left over after the command, parse raises
\* SyntaxError and returns no command.
C24_ParseReturnsOnlyWholeSupportedStatements ==
    ParseCalled =>
        /\ last.raised = "" =>
            /\ ParsedTokens # <<>>
            /\ ParsedTokens[1].type = "KEYWORD"
            /\ ParsedTokens[1].value \in SupportedStatements
            /\ _parse_command(ParsedTokens, 0).raised = ""
            /\ _parse_command(ParsedTokens, 0).index = Len(ParsedTokens)
            /\ last.ret = _parse_command(ParsedTokens, 0).value
        /\ (\/ ParsedTokens = <<>>
            \/ ParsedTokens[1].type # "KEYWORD"
            \/ ParsedTokens[1].value \notin SupportedStatements
            \/ TokensLeftOver)
           => last.raised = "SyntaxError" /\ last.ret = NoRet

\* C24 witness: parse has refused a statement whose grammar built a command
\* and left a token unread.
C24_Witness == ParseCalled /\ TokensLeftOver /\ last.raised = "SyntaxError"

\* the rows of lexical texts that the tuples stand for
ValuesOfRows(rows) == [k \in 1..Len(rows) |-> [i \in 1..Len(rows[k]) |-> rows[k][i].value]]

\* C25: an INSERT statement with k >= 1 value tuples separated by commas
\* parses into an Insert command that holds exactly those k rows in source
\* order, each with its values in source order.
C25_InsertHoldsEveryTuple ==
    \A column_list \in ColumnListInputs, rows \in RowsInputs :
        (last.op = "parse" /\ last.args[1] = InsertText(column_list, rows, <<",", " ">>)) =>
            /\ last.raised = ""
            /\ last.ret.type = "INSERT"
            /\ last.ret.values = ValuesOfRows(rows)

====
